---- MODULE Spec2Model ----
(***************************************************************************)
(* Remita table chart plugin (plugin-chart-remita-table, TableChart.tsx    *)
(* and DataTable.tsx): the outbound event de-duplication gate, the row     *)
(* selection store and its persistence in localStorage, server-side        *)
(* pagination and search, and the dispatch of action events.               *)
(*                                                                         *)
(* JavaScript values are modelled as follows.                              *)
(*   scalar   [t |-> "num" | "str" | "date" | "bigint", s |-> text]        *)
(*   object   a sequence of <<key, scalar>> pairs, in insertion order      *)
(*   Map      a sequence of <<id, row>> pairs with distinct ids, in        *)
(*            insertion order                                              *)
(*   JSON     the text JSON.stringify produces, as a string                *)
(*   optional a field that can be undefined is <<>> or <<value>>           *)
(***************************************************************************)
EXTENDS Integers, Sequences, FiniteSets, TLC

VARIABLES
  featureFlags,    \* window.featureFlags and the FeatureFlag enum entry
  isTopWindow,     \* window.self === window.top
  props,           \* selection_mode, retain_selection_across_navigation, serverPagination, pageSize
  phase,           \* "unmounted" | "restoring" | "mounted"
  dedupeEnabled,   \* dedupeEnabled of the render whose closure sendWindowPostMessage keeps
  DEDUPE_TTL_MS,   \* DEDUPE_TTL_MS of that render
  now,             \* Date.now()
  recentEvents,    \* recentEventsRef.current : fingerprint -> timestamp
  lastSend,        \* <<>> or <<record>>: the last doSendWindowPostMessage call of this mount
  lastDelivery,    \* [of, at]: when a message with the payload "of" last passed the gate
                   \* in this mount (NoTime: never)
  data,            \* the data prop (client mode: the whole result; server mode: the current page)
  pageIndex,       \* react-table pageIndex (client mode)
  selectedRows,    \* useState<Map<string, D>>
  pendingRows,     \* <<>> or <<map>>: a setSelectedRows scheduled by the load effect
  lastSelectedRow, \* lastSelectedRow.current ("" stands for null)
  firstLoadRef,    \* firstLoadRef.current
  storage,         \* localStorage item selectedRows_<sliceId>: <<>> (absent) or <<text>>
  lastOp,          \* <<>> or <<record>>: the last selection operation and the state it started from
  storageThrows,   \* every access to localStorage throws (storage disabled by the browser)
  pageSize,        \* the pageSize prop (server_page_length) of server-side pagination
  rowCount,        \* the rowCount prop: total number of rows of the server-side result
  serverPaginationData, \* the table's ownState: currentPage, pageSize, searchText, searchColumn, sortBy
  capturedOwnState,\* serverPaginationData as closed over by handleServerPaginationChange
  searchTimers,    \* pending timers of debounce(handleSearch, 800) instances
  message,         \* the message state shown in the alert ("" : no alert)
  alertTimers,     \* due times of the pending setTimeout(() => setMessage(''), 5000)
  lastEvent,       \* the last click or notification that asked for a dispatch
  requests,        \* what the timers and handlers did to the ownState: a log for the search claims
  tableSortBy,     \* state.sortBy of react-table in DataTable (the local sort)
  pageSizeRef,     \* pageSizeRef.current[0] of DataTable, <<>> while unmounted
  peer,            \* a second table chart of the same page: whether it is mounted, its
                   \* own recentEventsRef, and the postMessage calls of the last window event
  visibility,      \* <<>> or <<record>>: the last evaluateVisibilityCondition of an ActionCell
  showProgress,    \* the showProgress prop of the filter bar
  progressEnabled, \* FeatureFlag.FilterBarProgressIndicator (and a vertical bar)
  progressVisible, \* useState progressVisible
  holdRender,      \* useState holdRender
  prevVisible,     \* prevVisible.current
  visibleSinceRef, \* visibleSinceRef.current: <<>> (null) or <<time>>
  hideRef,         \* the pending hide timeout: <<>> or <<due>>
  holdTimer,       \* the pending fade-out timeout: <<>> or <<due>>
  barLog           \* when the indicator last became visible, was hidden and was removed

selVars  == <<data, pageIndex, selectedRows, pendingRows, lastSelectedRow, firstLoadRef,
              storage, lastOp>>
envVars   == <<storageThrows, pageSize>>
pagVars   == <<rowCount, serverPaginationData, capturedOwnState>>
timerVars == <<searchTimers, message, alertTimers>>
barVars   == <<showProgress, progressEnabled, progressVisible, holdRender, prevVisible,
               visibleSinceRef, hideRef, holdTimer, barLog>>
vars == <<featureFlags, isTopWindow, props, phase, dedupeEnabled, DEDUPE_TTL_MS, now,
          recentEvents, lastSend, lastDelivery, data, pageIndex, selectedRows, pendingRows,
          lastSelectedRow, firstLoadRef, storage, lastOp, storageThrows, pageSize, rowCount,
          serverPaginationData, capturedOwnState, searchTimers, message, alertTimers,
          lastEvent, requests, tableSortBy, pageSizeRef, peer, visibility, showProgress,
          progressEnabled, progressVisible, holdRender, prevVisible, visibleSinceRef,
          hideRef, holdTimer, barLog>>

----------------------------------------------------------------------------
(* Bounds of the model *)

MaxTime == 1200               \* the clock stops advancing here
TickSteps == {500, 600}       \* the amounts of time that pass between events
NoTime == 0 - 1               \* "never" in lastDelivery

----------------------------------------------------------------------------
(* JavaScript values and JSON.stringify *)

Num(n)    == [t |-> "num", s |-> ToString(n)]
Str(s)    == [t |-> "str", s |-> s]
Date(iso) == [t |-> "date", s |-> iso]
BigInt(n) == [t |-> "bigint", s |-> ToString(n)]

Quote(s) == "\"" \o s \o "\""

\* JSON.stringify throws a TypeError on a BigInt
ScalarThrows(v) == v.t = "bigint"

\* JSON.stringify of a scalar: a number as its digits, a string quoted, a Date
\* through Date.prototype.toJSON, that is as its quoted ISO string
ScalarJson(v) ==
  CASE v.t = "num"  -> v.s
    [] v.t = "str"  -> Quote(v.s)
    [] v.t = "date" -> Quote(v.s)

RECURSIVE JoinComma(_)
JoinComma(parts) ==
  IF parts = <<>> THEN ""
  ELSE IF Len(parts) = 1 THEN parts[1]
  ELSE parts[1] \o "," \o JoinComma(Tail(parts))

ObjectThrows(o) == \E i \in 1..Len(o) : ScalarThrows(o[i][2])

\* an object: its own properties in insertion order
ObjectJson(o) ==
  "{" \o JoinComma([i \in 1..Len(o) |-> Quote(o[i][1]) \o ":" \o ScalarJson(o[i][2])]) \o "}"

RowsThrow(rows) == \E i \in 1..Len(rows) : ObjectThrows(rows[i])

RowsJson(rows) ==
  "[" \o JoinComma([i \in 1..Len(rows) |-> ObjectJson(rows[i])]) \o "]"

----------------------------------------------------------------------------
(* Outbound messages *)

C2Message == [action |-> "bulk-action", chartId |-> Num(1), actionType |-> "approve",
              values |-> << << <<"id", Num(1)>> >> >>, origin |-> "bulk"]

\* a message with a row of two columns, the same message forwarded from the slice
\* header, the same message with the columns of the row in the other order, and a
\* message whose row holds a BigInt
TwoColumns == [C2Message EXCEPT !.values = << << <<"id", Num(1)>>, <<"a", Num(2)>> >> >>]

Messages ==
  { C2Message,
    TwoColumns,
    [TwoColumns EXCEPT !.origin = "header"],
    [TwoColumns EXCEPT !.values = << << <<"a", Num(2)>>, <<"id", Num(1)>> >> >>],
    [C2Message EXCEPT !.values = << << <<"id", BigInt(1)>> >> >>] }

\* const { action, chartId, actionType, values } = msg
StablePart(msg) == [action |-> msg.action, chartId |-> msg.chartId,
                    actionType |-> msg.actionType, values |-> msg.values]

\* JSON.stringify({ action, chartId, actionType, values }) throws
MessageThrows(msg) == ScalarThrows(msg.chartId) \/ RowsThrow(msg.values)

\* a fingerprint that also takes origin in
KeyPayloadJson_WithOrigin(msg) ==
  "{" \o Quote("action") \o ":" \o Quote(msg.action) \o ","
      \o Quote("chartId") \o ":" \o ScalarJson(msg.chartId) \o ","
      \o Quote("actionType") \o ":" \o Quote(msg.actionType) \o ","
      \o Quote("values") \o ":" \o RowsJson(msg.values) \o ","
      \o Quote("origin") \o ":" \o Quote(msg.origin) \o "}"

\* JSON.stringify({ action, chartId, actionType, values }): the four properties in
\* the order of the object literal, whatever the order of the fields of msg
KeyPayloadJson(msg) ==
  "{" \o Quote("action") \o ":" \o Quote(msg.action) \o ","
      \o Quote("chartId") \o ":" \o ScalarJson(msg.chartId) \o ","
      \o Quote("actionType") \o ":" \o Quote(msg.actionType) \o ","
      \o Quote("values") \o ":" \o RowsJson(msg.values) \o "}"

----------------------------------------------------------------------------
(* Event dedupe gate *)

DefaultTtlMs == 1000
PruneThreshold == 200

FlagStates == [enabled : {"unset", "true", "false"},
               ttl : {<<>>, <<0>>, <<500>>, <<600>>},
               entry : {"absent", "on", "off", "throws"}]

\* a resolution that asks the FeatureFlag entry before the window flag
getRemitaDedupeEnabled_EntryFirst(ff) ==
  IF ff.entry = "on" THEN TRUE
  ELSE IF ff.entry = "off" THEN FALSE
  ELSE IF ff.enabled # "unset" THEN ff.enabled = "true"
  ELSE TRUE

getRemitaDedupeEnabled(ff) ==
  IF ff.enabled # "unset" THEN ff.enabled = "true"
  ELSE IF ff.entry = "on" THEN TRUE
  ELSE IF ff.entry = "off" THEN FALSE
  ELSE TRUE   \* no FeatureFlag entry, or the lookup threw: default safe behavior

getRemitaDedupeTtlMs(ff) ==
  IF ff.ttl # <<>> THEN ff.ttl[1] ELSE DefaultTtlMs

EffectiveTtl(ff) == IF getRemitaDedupeEnabled(ff) THEN getRemitaDedupeTtlMs(ff) ELSE 0

makeEventKey(msg, t) ==
  IF MessageThrows(msg) THEN ToString(t) ELSE KeyPayloadJson(msg)

EmptyMap == [k \in {} |-> 0]

\* recentEventsRef.current.get(key) || 0
LastSent(map, key) == IF key \in DOMAIN map THEN map[key] ELSE 0

\* a cleanup that also drops the entries that are exactly TTL old
Prune_Inclusive(map, t, ttl) ==
  IF Cardinality(DOMAIN map) > PruneThreshold
  THEN [k \in {j \in DOMAIN map : ~(map[j] <= t - ttl)} |-> map[k]]
  ELSE map

\* cleanup old entries occasionally
Prune(map, t, ttl) ==
  IF Cardinality(DOMAIN map) > PruneThreshold
  THEN [k \in {j \in DOMAIN map : ~(map[j] < t - ttl)} |-> map[k]]
  ELSE map

\* a gate that still suppresses when exactly TTL has passed (now - last <= TTL)
shouldSendMessage_Inclusive(msg, t, map, enabled, ttl) ==
  IF ~enabled \/ ttl <= 0 THEN [send |-> TRUE, map |-> map]
  ELSE LET key == makeEventKey(msg, t)
       IN IF t - LastSent(map, key) <= ttl
          THEN [send |-> FALSE, map |-> map]
          ELSE [send |-> TRUE,
                map |-> Prune([k \in DOMAIN map \cup {key} |->
                                 IF k = key THEN t ELSE map[k]], t, ttl)]

\* a gate that lets a TTL of 0 or less through to the map (only !dedupeEnabled returns early)
shouldSendMessage_NoTtlGuard(msg, t, map, enabled, ttl) ==
  IF ~enabled THEN [send |-> TRUE, map |-> map]
  ELSE LET key == makeEventKey(msg, t)
       IN IF t - LastSent(map, key) < ttl
          THEN [send |-> FALSE, map |-> map]
          ELSE [send |-> TRUE,
                map |-> Prune([k \in DOMAIN map \cup {key} |->
                                 IF k = key THEN t ELSE map[k]], t, ttl)]

\* a gate that records the time of a suppressed send too
shouldSendMessage_Refresh(msg, t, map, enabled, ttl) ==
  IF ~enabled \/ ttl <= 0 THEN [send |-> TRUE, map |-> map]
  ELSE LET key == makeEventKey(msg, t)
       IN IF t - LastSent(map, key) < ttl
          THEN [send |-> FALSE,
                map |-> [k \in DOMAIN map \cup {key} |-> IF k = key THEN t ELSE map[k]]]
          ELSE [send |-> TRUE,
                map |-> Prune([k \in DOMAIN map \cup {key} |->
                                 IF k = key THEN t ELSE map[k]], t, ttl)]

\* shouldSendMessage(msg) at time t: the value returned and the map it leaves
shouldSendMessage(msg, t, map, enabled, ttl) ==
  IF ~enabled \/ ttl <= 0 THEN [send |-> TRUE, map |-> map]
  ELSE LET key == makeEventKey(msg, t)
       IN IF t - LastSent(map, key) < ttl
          THEN [send |-> FALSE, map |-> map]
          ELSE [send |-> TRUE,
                map |-> Prune([k \in DOMAIN map \cup {key} |->
                                 IF k = key THEN t ELSE map[k]], t, ttl)]

\* JSON.stringify(messageData) of a message built by handleTableAction (a forwarded
\* payload has origin as its first property)
MessageJson(m) ==
  "{" \o Quote("action") \o ":" \o Quote(m.action) \o ","
      \o Quote("chartId") \o ":" \o ScalarJson(m.chartId) \o ","
      \o Quote("actionType") \o ":" \o Quote(m.actionType) \o ","
      \o Quote("values") \o ":" \o RowsJson(m.values) \o ","
      \o Quote("origin") \o ":" \o Quote(m.origin) \o "}"

AlertDismissMs == 5000
SearchDebounceMs == 800

\* a pending timer: live says that it belongs to the debounce instance of the latest
\* render, orphan that the component that started it has been unmounted
\* every render of TableChart makes a new debounce(handleSearch, 800): the timers of
\* the instances before it stay pending, and no call can restart them any more
Stale(timers) == {[t EXCEPT !.live = FALSE] : t \in timers}

\* the component is gone, its timers are not cleared
Orphan(timers) == {[t EXCEPT !.live = FALSE, !.orphan = TRUE] : t \in timers}

\* the due times of everything pending
PendingDue == {t.due : t \in searchTimers} \cup {t.due : t \in alertTimers}

\* doShowAlertMessage(messageData): setMessage(JSON.stringify(messageData)) and a
\* timer that clears the message 5000 ms later; the render that a changed message
\* causes
doShowAlertMessage(text) ==
  /\ message' = text
  /\ alertTimers' = alertTimers \cup {[due |-> now + AlertDismissMs, orphan |-> FALSE]}
  /\ searchTimers' = IF text # message THEN Stale(searchTimers) ELSE searchTimers

\* doSendWindowPostMessage(messageData)
doSendWindowPostMessage(m) ==
  /\ phase = "mounted"
  /\ LET r == shouldSendMessage(m, now, recentEvents, dedupeEnabled, DEDUPE_TTL_MS)
         target == IF ~r.send THEN "none"
                   ELSE IF ~isTopWindow THEN "postMessage"
                   ELSE IF MessageThrows(m) THEN "threw"  \* JSON.stringify in doShowAlertMessage
                   ELSE "alert"
     IN /\ recentEvents' = r.map
        /\ lastSend' = << [m |-> m, at |-> now, send |-> r.send, target |-> target,
                           key |-> makeEventKey(m, now),
                           prev |-> IF StablePart(m) = lastDelivery.of
                                    THEN lastDelivery.at ELSE NoTime,
                           fresh |-> recentEvents = EmptyMap] >>
        /\ lastDelivery' = IF r.send /\ StablePart(m) = lastDelivery.of
                           THEN [lastDelivery EXCEPT !.at = now] ELSE lastDelivery
        /\ IF target = "alert" THEN doShowAlertMessage(MessageJson(m))
           ELSE UNCHANGED timerVars
  /\ UNCHANGED <<featureFlags, isTopWindow, props, phase, dedupeEnabled, DEDUPE_TTL_MS, now>>
  /\ UNCHANGED selVars
  /\ UNCHANGED envVars
  /\ UNCHANGED pagVars
  /\ UNCHANGED <<tableSortBy, visibility, pageSizeRef, barVars>>

NoEvent == [surface |-> "none", key |-> "", rows |-> <<>>, payload |-> <<>>, at |-> NoTime,
            map |-> <<>>, send |-> <<>>, alertBefore |-> <<>>, alertAfter |-> <<>>]

\* some caller hands a message to sendWindowPostMessage
Send ==
  /\ \E m \in Messages : doSendWindowPostMessage(m)
  /\ lastEvent' = NoEvent
  /\ UNCHANGED <<requests, peer>>

MaxExtra == 2                 \* how far a stream of messages takes the map beyond PruneThreshold

\* the n-th message of a stream of distinct messages
StreamMessage(n) == [C2Message EXCEPT !.values = << << <<"id", Num(n)>> >> >>]

\* the first message of the stream that the map does not hold
NextOfStream ==
  LET absent == {n \in 1..(PruneThreshold + MaxExtra + 1) :
                   KeyPayloadJson(StreamMessage(n)) \notin DOMAIN recentEvents}
  IN CHOOSE n \in absent : \A other \in absent : n <= other

\* some caller hands sendWindowPostMessage the next message of the stream
SendStream ==
  /\ Cardinality(DOMAIN recentEvents) < PruneThreshold + MaxExtra
  /\ \E m \in {StreamMessage(NextOfStream)} : doSendWindowPostMessage(m)
  /\ lastEvent' = NoEvent
  /\ UNCHANGED <<requests, peer>>

\* some caller hands sendWindowPostMessage the first message of the stream again
ResendStream ==
  /\ \E m \in {StreamMessage(1)} : doSendWindowPostMessage(m)
  /\ lastEvent' = NoEvent
  /\ UNCHANGED <<requests, peer>>

\* time passes
Tick ==
  /\ \E d \in TickSteps :
       /\ now + d <= MaxTime
       /\ \A due \in PendingDue : now + d <= due   \* a timer fires when it is due
       /\ now' = now + d
  /\ UNCHANGED <<featureFlags, isTopWindow, props, phase, dedupeEnabled, DEDUPE_TTL_MS,
                 recentEvents, lastSend, lastDelivery>>
  /\ UNCHANGED selVars
  /\ UNCHANGED <<envVars, pagVars, timerVars, lastEvent, requests>>
  /\ UNCHANGED <<tableSortBy, peer, visibility, pageSizeRef, barVars>>

----------------------------------------------------------------------------
(* Rows, query results and the visible page *)

PageSize == 2                 \* the pageSize prop of client-side pagination

IdColumn == "id"              \* bulk_action_id_column

Row(i, v) == << <<IdColumn, Num(i)>>, <<"v", v>> >>

\* row[column]
Field(row, column) == (CHOOSE i \in 1..Len(row) : row[i][1] = column)

\* String(row[bulk_action_id_column])
RowId(row) == row[Field(row, IdColumn)][2].s

\* the query results the chart is rendered with
DataA == << Row(1, Str("a")), Row(2, Str("a")), Row(3, Date("D")) >>
DataB == << Row(2, Str("b")), Row(3, BigInt(7)) >>
Datasets == {DataA, DataB}

Range(seq) == {seq[i] : i \in 1..Len(seq)}

Min(a, b) == IF a < b THEN a ELSE b
Max(a, b) == IF a < b THEN b ELSE a

\* page.map(r => r.original): server mode renders the rows it was given, client
\* mode the slice of data that usePagination cuts out
PageRows(d, p, server) ==
  IF server THEN d
  ELSE SubSeq(d, p * PageSize + 1, Min(Len(d), (p + 1) * PageSize))

VisibleIds(rows) == [i \in 1..Len(rows) |-> RowId(rows[i])]

\* visibleIds.indexOf(id), 0 standing for -1
IndexOf(ids, id) ==
  IF \E i \in 1..Len(ids) : ids[i] = id
  THEN CHOOSE i \in 1..Len(ids) : ids[i] = id /\ \A j \in 1..(i - 1) : ids[j] # id
  ELSE 0

----------------------------------------------------------------------------
(* Map<string, D> *)

Keys(map) == {map[i][1] : i \in 1..Len(map)}
Has(map, id) == id \in Keys(map)
Get(map, id) == map[CHOOSE i \in 1..Len(map) : map[i][1] = id][2]

\* map.set(id, row): an existing key keeps its place
MapSet(map, id, row) ==
  IF Has(map, id)
  THEN [i \in 1..Len(map) |-> IF map[i][1] = id THEN <<id, row>> ELSE map[i]]
  ELSE Append(map, <<id, row>>)

\* map.delete(id)
MapDelete(map, id) == SelectSeq(map, LAMBDA e : e[1] # id)

RECURSIVE DeleteAll(_, _)
DeleteAll(map, ids) ==
  IF ids = <<>> THEN map ELSE DeleteAll(MapDelete(map, Head(ids)), Tail(ids))

RECURSIVE SetAll(_, _)
SetAll(map, rows) ==
  IF rows = <<>> THEN map
  ELSE SetAll(MapSet(map, RowId(Head(rows)), Head(rows)), Tail(rows))

\* data.find(row => String(row[bulk_action_id_column]) === rowId), <<>> for undefined
FindRow(d, rowId) ==
  LET i == IndexOf(VisibleIds(d), rowId) IN IF i = 0 THEN <<>> ELSE <<d[i]>>

----------------------------------------------------------------------------
(* Persistence of the selection in localStorage *)

EntryThrows(map) == \E i \in 1..Len(map) : ObjectThrows(map[i][2])

\* JSON.stringify(Array.from(selectedRows.entries()))
SelectionJson(map) ==
  "[" \o JoinComma([i \in 1..Len(map) |->
         "[" \o Quote(map[i][1]) \o "," \o ObjectJson(map[i][2]) \o "]"]) \o "]"

\* what JSON.parse gives back for the text of a scalar: a Date was written as a
\* string and is read as a string
ParsedScalar(v) == IF v.t = "date" THEN Str(v.s) ELSE v

ParsedRow(row) == [i \in 1..Len(row) |-> <<row[i][1], ParsedScalar(row[i][2])>>]

AllRows == UNION {Range(d) : d \in Datasets}
AllIds == {RowId(r) : r \in AllRows}

\* the [id, row] pair lists whose text the component can have written
StoredEntries == {<<RowId(r), ParsedRow(r)>> : r \in {x \in AllRows : ~ObjectThrows(x)}}
StoredSelections ==
  {sel \in UNION {[1..n -> StoredEntries] : n \in 0..Cardinality(AllIds)} :
     \A i, j \in 1..Len(sel) : i # j => sel[i][1] # sel[j][1]}

\* new Map(JSON.parse(text)): <<map>>, or <<>> when it throws
ParseSelection(text) ==
  IF \E sel \in StoredSelections : SelectionJson(sel) = text
  THEN << CHOOSE sel \in StoredSelections : SelectionJson(sel) = text >>
  ELSE <<>>

\* the persist effect, run after every render that changed selectedRows; a
\* localStorage that throws is caught with everything else and leaves the item alone
PersistEffect(sel, retain, stored) ==
  IF storageThrows THEN stored
  ELSE IF retain
  THEN IF EntryThrows(sel) THEN stored   \* caught: "Failed to persist selection"
       ELSE << SelectionJson(sel) >>
  ELSE <<>>

\* the storage fails the component: it throws, or the text it holds does not parse
\* into the entries of a Map
StorageFails(stored) ==
  \/ storageThrows
  \/ stored # <<>> /\ stored[1] # "" /\ ParseSelection(stored[1]) = <<>>

\* localStorage.getItem of the load effect stands outside its try: with retention on,
\* a localStorage that throws makes the effect throw
LoadEffectThrows(retain) == retain /\ storageThrows

\* the load effect of the first render: the selection it schedules and the storage it leaves
LoadEffect(retain, stored) ==
  IF storageThrows THEN [pending |-> <<>>, stored |-> stored]
  ELSE IF retain
  THEN [pending |-> IF stored # <<>> /\ stored[1] # "" THEN
                      LET parsed == ParseSelection(stored[1])
                      IN IF parsed # <<>> THEN parsed ELSE <<>>
                    ELSE <<>>,
        stored |-> stored]
  ELSE [pending |-> <<>>, stored |-> <<>>]

----------------------------------------------------------------------------
(* ActionCell: the visibility condition of a row action *)

\* values of a row and of a condition: null, undefined, a number, a string as the
\* sequence of its characters
VNull == [t |-> "null"]
VUndefined == [t |-> "undefined"]
VNum(n) == [t |-> "num", n |-> n]
VStr(chars) == [t |-> "str", c |-> chars]

Nullish(v) == v.t \in {"null", "undefined"}

\* the characters of the model in the order of their code units
Alphabet == <<" ", ",", "0", "1", "2", "3", "4", "5", "6", "7", "8", "9", "a", "b",
              "d", "e", "f", "i", "l", "n", "u">>
CharCode(ch) == CHOOSE i \in 1..Len(Alphabet) : Alphabet[i] = ch
DigitChars == {"0", "1", "2", "3", "4", "5", "6", "7", "8", "9"}
DigitValue(ch) == CharCode(ch) - CharCode("0")

\* the decimal digits of a number
RECURSIVE DigitsOf(_)
DigitsOf(n) == IF n < 10 THEN <<Alphabet[CharCode("0") + n]>>
               ELSE DigitsOf(n \div 10) \o <<Alphabet[CharCode("0") + (n % 10)]>>

\* String(v)
JsString(v) ==
  CASE v.t = "null" -> <<"n", "u", "l", "l">>
    [] v.t = "undefined" -> <<"u", "n", "d", "e", "f", "i", "n", "e", "d">>
    [] v.t = "num" -> DigitsOf(v.n)
    [] v.t = "str" -> v.c

\* the text without the spaces before it, and without the spaces after it
RECURSIVE TrimStart(_)
TrimStart(chars) ==
  IF chars # <<>> /\ Head(chars) = " " THEN TrimStart(Tail(chars)) ELSE chars

RECURSIVE TrimEnd(_)
TrimEnd(chars) ==
  IF chars # <<>> /\ chars[Len(chars)] = " " THEN TrimEnd(SubSeq(chars, 1, Len(chars) - 1))
  ELSE chars

\* s.trim()
Trim(chars) == TrimEnd(TrimStart(chars))

\* s.split(","): the items between the commas, at least one
RECURSIVE SplitComma(_, _)
SplitComma(chars, item) ==
  IF chars = <<>> THEN <<item>>
  ELSE IF Head(chars) = "," THEN <<item>> \o SplitComma(Tail(chars), <<>>)
  ELSE SplitComma(Tail(chars), Append(item, Head(chars)))

\* the value of a sequence of digits
RECURSIVE ValueOf(_)
ValueOf(digits) ==
  IF digits = <<>> THEN 0
  ELSE 10 * ValueOf(SubSeq(digits, 1, Len(digits) - 1)) + DigitValue(digits[Len(digits)])

\* Number(v): <<n>>, or <<>> for NaN
ToNumber(v) ==
  CASE v.t = "null" -> <<0>>
    [] v.t = "undefined" -> <<>>
    [] v.t = "num" -> <<v.n>>
    [] v.t = "str" ->
         LET text == Trim(v.c)
         IN IF \A i \in 1..Len(text) : text[i] \in DigitChars THEN <<ValueOf(text)>>
            ELSE <<>>

\* a == b
LooseEquals(a, b) ==
  IF Nullish(a) \/ Nullish(b) THEN Nullish(a) /\ Nullish(b)
  ELSE IF a.t = b.t THEN a = b
  ELSE ToNumber(a) # <<>> /\ ToNumber(a) = ToNumber(b)

\* a < b of two strings: by code units
RECURSIVE StringLess(_, _)
StringLess(a, b) ==
  IF b = <<>> THEN FALSE
  ELSE IF a = <<>> THEN TRUE
  ELSE IF Head(a) # Head(b) THEN CharCode(Head(a)) < CharCode(Head(b))
  ELSE StringLess(Tail(a), Tail(b))

\* a < b
LessThan(a, b) ==
  IF a.t = "str" /\ b.t = "str" THEN StringLess(a.c, b.c)
  ELSE ToNumber(a) # <<>> /\ ToNumber(b) # <<>> /\ ToNumber(a)[1] < ToNumber(b)[1]

\* a <= b
LessOrEqual(a, b) ==
  IF a.t = "str" /\ b.t = "str" THEN ~StringLess(b.c, a.c)
  ELSE ToNumber(a) # <<>> /\ ToNumber(b) # <<>> /\ ToNumber(a)[1] <= ToNumber(b)[1]

\* row[colKey]: undefined for a key the row does not have
RowValue(row, colKey) ==
  IF colKey # <<>> /\ \E i \in 1..Len(row) : row[i][1] = colKey[1]
  THEN row[CHOOSE i \in 1..Len(row) : row[i][1] = colKey[1]][2]
  ELSE VUndefined

\* a column that is a string or an array of strings: !column, and the key it names
ColumnMissing(column) == column = <<>> \/ column[1] = [array |-> FALSE, names |-> <<"">>]
ColKey(column) == IF column[1].names = <<>> THEN <<>> ELSE <<column[1].names[1]>>

\* the items of the list of IN and NOT IN
ListItems(condValue) ==
  LET items == SplitComma(JsString(condValue), <<>>)
  IN {Trim(items[i]) : i \in 1..Len(items)}

\* a condition whose default branch hides the action
evaluateVisibilityCondition_FailClosed(condition, row) ==
  IF condition = <<>> \/ ColumnMissing(condition[1].column)
       \/ condition[1].operator \in {<<>>, <<"">>}
  THEN TRUE
  ELSE LET rowValue == RowValue(row, ColKey(condition[1].column))
           operator == condition[1].operator[1]
           condValue == condition[1].value
       IN CASE operator = "==" -> LooseEquals(rowValue, condValue)
            [] operator = "!=" -> ~LooseEquals(rowValue, condValue)
            [] operator = ">" -> LessThan(condValue, rowValue)
            [] operator = "<" -> LessThan(rowValue, condValue)
            [] operator = ">=" -> LessOrEqual(condValue, rowValue)
            [] operator = "<=" -> LessOrEqual(rowValue, condValue)
            [] operator = "IS NULL" -> Nullish(rowValue)
            [] operator = "IS NOT NULL" -> ~Nullish(rowValue)
            [] operator = "IN" -> JsString(rowValue) \in ListItems(condValue)
            [] operator = "NOT IN" -> JsString(rowValue) \notin ListItems(condValue)
            [] OTHER -> FALSE

\* evaluateVisibilityCondition(condition, row)
evaluateVisibilityCondition(condition, row) ==
  IF condition = <<>> \/ ColumnMissing(condition[1].column)
       \/ condition[1].operator \in {<<>>, <<"">>}
  THEN TRUE
  ELSE LET rowValue == RowValue(row, ColKey(condition[1].column))
           operator == condition[1].operator[1]
           condValue == condition[1].value
       IN CASE operator = "==" -> LooseEquals(rowValue, condValue)
            [] operator = "!=" -> ~LooseEquals(rowValue, condValue)
            [] operator = ">" -> LessThan(condValue, rowValue)
            [] operator = "<" -> LessThan(rowValue, condValue)
            [] operator = ">=" -> LessOrEqual(condValue, rowValue)
            [] operator = "<=" -> LessOrEqual(rowValue, condValue)
            [] operator = "IS NULL" -> Nullish(rowValue)
            [] operator = "IS NOT NULL" -> ~Nullish(rowValue)
            [] operator = "IN" -> JsString(rowValue) \in ListItems(condValue)
            [] operator = "NOT IN" -> JsString(rowValue) \notin ListItems(condValue)
            [] OTHER -> TRUE

KnownOperators == {"==", "!=", ">", "<", ">=", "<=", "IS NULL", "IS NOT NULL", "IN",
                   "NOT IN"}

\* the operator of a condition: missing, empty, a known one, or another string
OperatorInputs == {<<>>, <<"">>} \cup {<<o>> : o \in KnownOperators \cup {"in", "LIKE"}}

\* the column of a condition: missing, an empty string, a name, an array of names,
\* an empty array
ColumnInputs ==
  {<<>>} \cup {<<[array |-> FALSE, names |-> <<n>>]>> : n \in {"", "s", "zz"}}
         \cup {<<[array |-> TRUE, names |-> ns]>> : ns \in {<<>>, <<"s">>, <<"s", "zz">>}}

ConditionValues ==
  {VUndefined, VNull, VNum(1), VNum(12), VStr(<<"1">>), VStr(<<"a">>),
   VStr(<<"a", ",", " ", "b", " ">>), VStr(<<" ", "1", ",", "n", "u", "l", "l">>),
   VStr(<<>>)}

RowValues == {VNull, VUndefined, VNum(1), VNum(2), VNum(12), VStr(<<"a">>), VStr(<<"b">>),
              VStr(<<"1">>), VStr(<<" ", "a">>), VStr(<<>>)}

\* visibilityCondition of an action config: none, or column, operator and value
Conditions ==
  {<<>>} \cup {<<[column |-> c, operator |-> o, value |-> v]>> :
                 c \in ColumnInputs, o \in OperatorInputs, v \in ConditionValues}

\* the rows an action cell is rendered for: one with the column s, one without
VisibilityRows == {<< <<"s", v>> >> : v \in RowValues} \cup {<<>>}

----------------------------------------------------------------------------
(* Selection store *)

\* the updater of handleRowSelect(rowId, event): the new Map and lastSelectedRow.current
handleRowSelect(prev, last, rowId, shiftKey, d, mode) ==
  LET rowData == FindRow(d, rowId) IN
  IF rowData = <<>> THEN [sel |-> prev, last |-> last]
  ELSE IF mode = "single" THEN [sel |-> << <<rowId, rowData[1]>> >>, last |-> last]
  ELSE IF shiftKey /\ last # "" THEN
    LET visibleRows == d
        visibleIds == VisibleIds(visibleRows)
        startIdx == IndexOf(visibleIds, last)
        endIdx == IndexOf(visibleIds, rowId)
    IN IF startIdx > 0 /\ endIdx > 0
       THEN [sel |-> SetAll(prev, SubSeq(visibleRows, Min(startIdx, endIdx),
                                         Max(startIdx, endIdx))),
             last |-> last]
       ELSE [sel |-> prev, last |-> last]
  ELSE [sel |-> IF Has(prev, rowId) THEN MapDelete(prev, rowId)
                ELSE MapSet(prev, rowId, rowData[1]),
        last |-> rowId]

\* the updater of the radio and checkbox onChange of the selection column
cellOnChange(prev, rowId, checked, d) ==
  IF checked
  THEN LET rowData == FindRow(d, rowId)
       IN IF rowData # <<>> THEN MapSet(prev, rowId, rowData[1]) ELSE prev
  ELSE MapDelete(prev, rowId)

\* a toggleAll that clears the whole Map when the page is fully selected
handleBulkSelect_ClearAll(prev, visibleData) ==
  LET visibleIds == VisibleIds(visibleData)
      allVisibleSelected ==
        Len(visibleIds) > 0 /\ \A i \in 1..Len(visibleIds) : Has(prev, visibleIds[i])
  IN IF allVisibleSelected THEN <<>>
     ELSE SetAll(prev, visibleData)

\* a toggleAll that only ever selects
handleBulkSelect_NeverRemoves(prev, visibleData) == SetAll(prev, visibleData)

\* the updater of handleBulkSelect(visibleData)
handleBulkSelect(prev, visibleData) ==
  LET visibleIds == VisibleIds(visibleData)
      allVisibleSelected ==
        Len(visibleIds) > 0 /\ \A i \in 1..Len(visibleIds) : Has(prev, visibleIds[i])
  IN IF allVisibleSelected THEN DeleteAll(prev, visibleIds)
     ELSE SetAll(prev, visibleData)

----------------------------------------------------------------------------
(* Server-side pagination: the ownState and what DataTable renders from it *)

MaxRowCount == 5                   \* the largest total row count of a server result
RowCounts == 0..MaxRowCount
PageSizeProps == {0, 2, 3}         \* server_page_length: 0, an allowed option, another size
ServerPageSizeOptions == <<2, 4>>  \* SERVER_PAGE_SIZE_OPTIONS of consts.ts, scaled down
FallbackPageSize == 10             \* (serverPaginationData?.pageSize ?? initialPageSize) || 10
DefaultSearchColumn == "id"        \* filteredColumnsMeta?.[0]?.key
SearchColumns == {"id", "a"}
SearchTexts == {"x", "xy"}
SortItem == [id |-> "0", desc |-> TRUE]   \* react-table sorts by the first column, descending
SortBys == {<<>>, <<SortItem>>}           \* state.sortBy of react-table

EmptyOwnState == [currentPage |-> <<>>, pageSize |-> <<>>, searchText |-> "",
                  searchColumn |-> "", sortBy |-> <<>>]

\* a ?? d
Opt(a, d) == IF a = <<>> THEN d ELSE a[1]

\* JavaScript numbers: a finite integer, Infinity or NaN
Finite(n) == [fin |-> TRUE, v |-> n]
Infinity == [fin |-> FALSE, v |-> 1]
NaN == [fin |-> FALSE, v |-> 0]

\* Math.ceil(a / b) for a >= 0 and b >= 0
MathCeilDiv(a, b) ==
  IF b = 0 THEN (IF a = 0 THEN NaN ELSE Infinity)
  ELSE Finite((a + b - 1) \div b)

\* pageSizeOptions of TableChart in server mode: the options not above rowCount
pageSizeOptions(rc) == SelectSeq(ServerPageSizeOptions, LAMBDA n : n <= rc)

\* serverPageSize of the useTable options
serverPageSize(spd, initialPageSize) ==
  LET s == Opt(spd.pageSize, initialPageSize) IN IF s # 0 THEN s ELSE FallbackPageSize

\* serverPageCount: the pageCount handed to useTable, <<>> for undefined
serverPageCount(server, rc, spd, initialPageSize) ==
  IF server /\ serverPageSize(spd, initialPageSize) # 0
  THEN << MathCeilDiv(rc, serverPageSize(spd, initialPageSize)) >>
  ELSE <<>>

\* a page count that rounds down
resultPageCount_Floor(rc, spd, initialPageSize) ==
  IF Opt(spd.pageSize, initialPageSize) = 0 THEN 0
  ELSE rc \div Opt(spd.pageSize, initialPageSize)

\* resultPageCount of the server branch: the pageCount handed to SimplePagination
resultPageCount(rc, spd, initialPageSize) ==
  LET count == MathCeilDiv(rc, Opt(spd.pageSize, initialPageSize))
  IN IF count.fin THEN count.v ELSE 0

\* resultCurrentPageSize of the server branch: the size the selector shows
resultCurrentPageSize(rc, spd, initialPageSize) ==
  LET size == Opt(spd.pageSize, initialPageSize)
      options == pageSizeOptions(rc)
  IN IF \E i \in 1..Len(options) : options[i] = size THEN size
     ELSE IF options # <<>> THEN options[Len(options)]
     ELSE size

\* resultCurrentPage of the server branch
resultCurrentPage(spd) == Opt(spd.currentPage, 0)

\* hasPagination
hasPagination(rc, initialPageSize) == initialPageSize > 0 /\ rc > 0

\* the effect that syncs server_page_length into an ownState that has no pageSize
SyncPageSize(server, incomingSize, spd) ==
  IF server /\ incomingSize # 0 /\ spd.pageSize = <<>>
  THEN [spd EXCEPT !.currentPage = <<0>>, !.pageSize = <<incomingSize>>]
  ELSE spd

\* handleServerPaginationChange(pageNumber, pageSize): the callback is memoized on
\* setDataMask alone, so it spreads the serverPaginationData of the first render
handleServerPaginationChange(captured, pageNumber, size) ==
  [captured EXCEPT !.currentPage = <<pageNumber>>, !.pageSize = <<size>>]

\* desiredPageSize of DataTable
desiredPageSize(server, spd, initialPageSize, resultsSize) ==
  IF server THEN serverPageSize(spd, initialPageSize)
  ELSE IF initialPageSize > 0 THEN initialPageSize
  ELSE IF resultsSize # 0 THEN resultsSize ELSE FallbackPageSize

\* a forced update that goes through setPageSize and so calls
\* onServerPaginationChange(0, size)
ForcedPageSizeUpdate_Emits(forced, spd, captured, desired) ==
  IF forced THEN [captured EXCEPT !.currentPage = <<0>>, !.pageSize = <<desired>>]
  ELSE spd

\* the forced update of the react-table pageSize during a render: it uses the
\* internal setter setPageSize_, which leaves the ownState alone
ForcedPageSizeUpdate(forced, spd, captured, desired) == spd

\* handleSearch(searchText) of the render whose serverPaginationData is spd
handleSearch(spd, searchText) ==
  [spd EXCEPT !.searchColumn = IF spd.searchColumn # "" THEN spd.searchColumn
                               ELSE DefaultSearchColumn,
              !.searchText = searchText,
              !.currentPage = <<0>>]

\* handleChangeSearchCol(searchCol)
handleChangeSearchCol(spd, searchCol) ==
  IF spd.searchColumn = searchCol THEN spd
  ELSE [spd EXCEPT !.searchColumn = searchCol, !.searchText = ""]

\* columnKey of the column whose id is the index i: the key of the query column
ColumnKey(id) == IF id = "0" THEN "id" ELSE "v"

\* lodash isEqual of two sortBy arrays: items with other properties are not equal
isEqual(a, b) ==
  /\ Len(a) = Len(b)
  /\ \A i \in 1..Len(a) : DOMAIN a[i] = DOMAIN b[i] /\ a[i] = b[i]

\* handleSortByChange(sortBy): the first item gets the columnKey of its column as key
handleSortByChange(spd, sortBy) ==
  [spd EXCEPT !.sortBy =
     IF sortBy # <<>>
     THEN << [id |-> sortBy[1].id, desc |-> sortBy[1].desc,
              key |-> ColumnKey(sortBy[1].id)] >>
     ELSE sortBy]

\* the effect of DataTable that propagates the local sortBy to the parent
SortEffect(server, spd, sortBy) ==
  IF server /\ ~isEqual(sortBy, spd.sortBy) THEN handleSortByChange(spd, sortBy)
  ELSE spd

----------------------------------------------------------------------------
(* The component: mount, unmount and the selection gestures *)

NoOp == [op |-> "none", arg |-> "", shift |-> FALSE, last |-> "", visible |-> <<>>,
         before |-> <<>>, before2 |-> <<>>]

Page == PageRows(data, pageIndex, props.serverPagination)

selFrame == <<featureFlags, isTopWindow, props, phase, dedupeEnabled, DEDUPE_TTL_MS, now,
              recentEvents, lastSend, lastDelivery>>

\* a setSelectedRows of an event handler, the render and the persist effect that follow it
Commit(sel, last, op) ==
  /\ selectedRows' = sel
  /\ lastSelectedRow' = last
  /\ storage' = PersistEffect(sel, props.retain, storage)
  /\ lastOp' = op
  /\ searchTimers' = Stale(searchTimers)
  /\ UNCHANGED <<data, pageIndex, pendingRows, firstLoadRef>>
  /\ UNCHANGED selFrame
  /\ UNCHANGED <<envVars, pagVars, message, alertTimers, lastEvent, requests>>
  /\ UNCHANGED <<tableSortBy, peer, visibility, pageSizeRef, barVars>>

\* first render and its effects: the dedupe configuration is read, the refs are
\* fresh, the load effect runs and then the persist effect with the empty Map; in
\* server mode the sort effect of DataTable compares the empty local sortBy with
\* the parent's and the page-size sync effect of TableChart runs
Mount ==
  /\ phase = "unmounted"
  /\ dedupeEnabled' = getRemitaDedupeEnabled(featureFlags)
  /\ DEDUPE_TTL_MS' = EffectiveTtl(featureFlags)
  /\ recentEvents' = EmptyMap
  /\ lastSend' = <<>>
  /\ lastDelivery' = [lastDelivery EXCEPT !.at = NoTime]
  /\ firstLoadRef' = TRUE
  /\ lastSelectedRow' = ""
  /\ selectedRows' = <<>>
  /\ pageIndex' = 0
  /\ LET load == LoadEffect(props.retain, storage)
     IN /\ pendingRows' = load.pending
        /\ storage' = IF LoadEffectThrows(props.retain) THEN storage
                      ELSE PersistEffect(<<>>, props.retain, load.stored)
        /\ phase' = IF LoadEffectThrows(props.retain) THEN "crashed"
                    ELSE IF load.pending # <<>> THEN "restoring" ELSE "mounted"
  /\ lastOp' = [NoOp EXCEPT !.op = "mount",
                            !.arg = IF StorageFails(storage) THEN "storage failed" ELSE "",
                            !.before = IF lastOp.op = "unmount" THEN lastOp.before ELSE <<>>]
  /\ capturedOwnState' = serverPaginationData
  /\ serverPaginationData' =
       IF LoadEffectThrows(props.retain) THEN serverPaginationData
       ELSE SortEffect(props.serverPagination,
                       SyncPageSize(props.serverPagination, pageSize,
                                    serverPaginationData),
                       <<>>)
  /\ message' = ""
  /\ lastEvent' = NoEvent
  /\ tableSortBy' = <<>>
  /\ pageSizeRef' = << desiredPageSize(props.serverPagination, serverPaginationData,
                                       pageSize,
                                       IF props.serverPagination THEN rowCount
                                       ELSE Len(data)) >>
  /\ UNCHANGED <<featureFlags, isTopWindow, props, now, data>>
  /\ UNCHANGED <<envVars, rowCount, searchTimers, alertTimers, requests>>
  /\ visibility' = <<>>
  /\ UNCHANGED <<peer, barVars>>

\* the render that the load effect's setSelectedRows(parsed) causes, and its persist effect
RestoreSelection ==
  /\ phase = "restoring"
  /\ selectedRows' = pendingRows[1]
  /\ pendingRows' = <<>>
  /\ storage' = PersistEffect(pendingRows[1], props.retain, storage)
  /\ phase' = "mounted"
  /\ searchTimers' = Stale(searchTimers)
  /\ UNCHANGED <<featureFlags, isTopWindow, props, dedupeEnabled, DEDUPE_TTL_MS, now,
                 recentEvents, lastSend, lastDelivery, data, pageIndex, lastSelectedRow,
                 firstLoadRef, lastOp>>
  /\ UNCHANGED <<envVars, pagVars, message, alertTimers, lastEvent, requests>>
  /\ UNCHANGED <<tableSortBy, peer, visibility, pageSizeRef, barVars>>

\* the component goes away with its state and refs; localStorage and the ownState
\* stay, and so do the timers: no effect cleanup cancels the debounced search or
\* clears the alert timeouts
Unmount ==
  /\ phase = "mounted"
  /\ phase' = "unmounted"
  /\ selectedRows' = <<>>
  /\ lastSelectedRow' = ""
  /\ firstLoadRef' = FALSE
  /\ recentEvents' = EmptyMap
  /\ lastSend' = <<>>
  /\ lastDelivery' = [lastDelivery EXCEPT !.at = NoTime]
  /\ lastOp' = [NoOp EXCEPT !.op = "unmount", !.before = <<selectedRows>>]
  /\ searchTimers' = Orphan(searchTimers)
  /\ alertTimers' = {[t EXCEPT !.orphan = TRUE] : t \in alertTimers}
  /\ message' = ""
  /\ lastEvent' = NoEvent
  /\ requests' = [requests EXCEPT !.unmounted = TRUE]
  /\ UNCHANGED <<featureFlags, isTopWindow, props, dedupeEnabled, DEDUPE_TTL_MS, now,
                 data, pageIndex, pendingRows, storage>>
  /\ UNCHANGED <<envVars, pagVars>>
  /\ tableSortBy' = <<>>
  /\ pageSizeRef' = <<>>
  /\ visibility' = <<>>
  /\ UNCHANGED <<peer, barVars>>

\* handleRowSelect(rowId, event) for a click, with or without shift, on a rendered row
RowSelect ==
  /\ phase = "mounted"
  /\ \E rowId \in Range(VisibleIds(Page)), shiftKey \in BOOLEAN :
       LET r == handleRowSelect(selectedRows, lastSelectedRow, rowId, shiftKey, data,
                                props.selection_mode)
       IN Commit(r.sel, r.last,
                 [NoOp EXCEPT !.op = "row", !.arg = rowId, !.shift = shiftKey,
                              !.last = lastSelectedRow, !.visible = Page,
                              !.before = <<selectedRows>>])

\* the radio of a visible row (single mode): a click on a radio can only check it
RadioChange ==
  /\ phase = "mounted"
  /\ props.selection_mode = "single"
  /\ \E i \in 1..Len(Page) :
       Commit(cellOnChange(selectedRows, RowId(Page[i]), TRUE, data), lastSelectedRow,
              [NoOp EXCEPT !.op = "radio", !.arg = RowId(Page[i]),
                           !.before = <<selectedRows>>])

\* the checkbox of a visible row (multiple mode): checked is the negation of what it showed
CheckboxChange ==
  /\ phase = "mounted"
  /\ props.selection_mode = "multiple"
  /\ \E i \in 1..Len(Page) :
       Commit(cellOnChange(selectedRows, RowId(Page[i]),
                           ~Has(selectedRows, RowId(Page[i])), data),
              lastSelectedRow,
              [NoOp EXCEPT !.op = "checkbox", !.arg = RowId(Page[i]),
                           !.before = <<selectedRows>>])

\* the header checkbox (disabled in single mode): handleBulkSelect(pageData)
BulkSelect ==
  /\ phase = "mounted"
  /\ props.selection_mode = "multiple"
  /\ Commit(handleBulkSelect(selectedRows, Page), lastSelectedRow,
            [NoOp EXCEPT !.op = "bulk", !.visible = Page, !.before = <<selectedRows>>,
                         !.before2 = IF lastOp.op = "bulk" /\ lastOp.visible = Page
                                     THEN lastOp.before ELSE <<>>])

\* handleClearSelection
ClearSelection ==
  /\ phase = "mounted"
  /\ Commit(<<>>, lastSelectedRow, [NoOp EXCEPT !.op = "clear", !.before = <<selectedRows>>])

\* a new query result arrives; usePagination goes back to the first page
NewData ==
  /\ phase # "restoring"
  /\ \E d \in Datasets : d # data /\ data' = d
  /\ pageIndex' = 0
  /\ lastOp' = IF phase = "mounted" THEN [NoOp EXCEPT !.op = "data"] ELSE lastOp
  /\ searchTimers' = Stale(searchTimers)
  /\ UNCHANGED <<selectedRows, pendingRows, lastSelectedRow, firstLoadRef, storage>>
  /\ UNCHANGED selFrame
  /\ UNCHANGED <<envVars, pagVars, message, alertTimers, lastEvent, requests>>
  /\ UNCHANGED <<tableSortBy, peer, visibility, pageSizeRef, barVars>>

\* gotoPage of client-side pagination
GotoPage ==
  /\ phase = "mounted"
  /\ ~props.serverPagination
  /\ \E p \in 0..Len(data) : p # pageIndex /\ p * PageSize < Len(data) /\ pageIndex' = p
  /\ lastOp' = [NoOp EXCEPT !.op = "page"]
  /\ UNCHANGED <<data, selectedRows, pendingRows, lastSelectedRow, firstLoadRef, storage>>
  /\ UNCHANGED selFrame
  /\ UNCHANGED <<envVars, pagVars, timerVars, lastEvent, requests>>
  /\ UNCHANGED <<tableSortBy, peer, visibility, pageSizeRef, barVars>>

----------------------------------------------------------------------------
(* Server-side pagination and the debounced search *)

MaxClock == MaxTime + AlertDismissMs   \* no timer is followed beyond this time
ElapseStep == 600               \* less than the debounce wait
MaxTyped == 3                   \* search-input changes in one run
MaxEvents == 2                  \* action clicks and notifications in one run

NoRequests == [changes |-> 0, lastChangeAt |-> NoTime, lastText |-> "",
               fired |-> 0, firedAt |-> NoTime, firedText |-> "",
               unmounted |-> FALSE, orphanSearch |-> FALSE, orphanAlert |-> FALSE,
               pageReq |-> <<>>, typed |-> 0, events |-> 0]

\* requests logs, for the claims about the search and the timers: the search-input
\* changes of the current burst (each less than 800 ms after the one before), the
\* handleSearch calls since the burst began, whether the component was unmounted
\* since, whether a timer of an unmounted component has fired, the last page-change
\* request, and the number of search-input changes and of dispatch events so far

\* what stays put when a handler only writes the ownState
ownStateFrame == <<featureFlags, isTopWindow, props, phase, dedupeEnabled, DEDUPE_TTL_MS,
                   recentEvents, lastSend, lastDelivery, data, pageIndex, selectedRows,
                   pendingRows, lastSelectedRow, firstLoadRef, storage, lastOp,
                   storageThrows, pageSize, capturedOwnState, message, alertTimers,
                   lastEvent, peer, visibility, pageSizeRef, barVars>>

\* updateTableOwnState(setDataMask, modifiedOwnState) and the render with the new prop
updateTableOwnState(modifiedOwnState) ==
  /\ serverPaginationData' = modifiedOwnState
  /\ searchTimers' = Stale(searchTimers)

\* a page of SimplePagination is clicked: resultOnPageChange(pageNumber)
PageChange ==
  /\ phase = "mounted" /\ props.serverPagination
  /\ hasPagination(rowCount, pageSize)
  /\ resultPageCount(rowCount, serverPaginationData, pageSize) > 1
  /\ \E pageNumber \in 0..(resultPageCount(rowCount, serverPaginationData, pageSize) - 1) :
       /\ pageNumber # resultCurrentPage(serverPaginationData)
       /\ updateTableOwnState(
            handleServerPaginationChange(capturedOwnState, pageNumber,
                                         Opt(serverPaginationData.pageSize, pageSize)))
  /\ requests' = [requests EXCEPT !.pageReq =
                    << [size |-> Opt(serverPaginationData.pageSize, pageSize),
                        shown |-> resultCurrentPageSize(rowCount, serverPaginationData,
                                                        pageSize)] >>]
  /\ UNCHANGED <<now, rowCount, tableSortBy>>
  /\ UNCHANGED ownStateFrame

\* an option of the page size selector is chosen: setPageSize(size)
SetPageSize ==
  /\ phase = "mounted" /\ props.serverPagination
  /\ \E size \in Range(pageSizeOptions(rowCount)) :
       updateTableOwnState(handleServerPaginationChange(capturedOwnState, 0, size))
  /\ UNCHANGED <<now, rowCount, requests, tableSortBy>>
  /\ UNCHANGED ownStateFrame

\* the search column dropdown: onSearchColChange(col)
ChangeSearchCol ==
  /\ phase = "mounted" /\ props.serverPagination
  /\ \E col \in SearchColumns :
       /\ col # serverPaginationData.searchColumn
       /\ updateTableOwnState(handleChangeSearchCol(serverPaginationData, col))
  /\ UNCHANGED <<now, rowCount, requests, tableSortBy>>
  /\ UNCHANGED ownStateFrame

\* a column header is clicked: handleSortByChange(sortBy)
SortChange ==
  /\ phase = "mounted" /\ props.serverPagination
  /\ \E sortBy \in SortBys :
       /\ sortBy # tableSortBy
       /\ tableSortBy' = sortBy
       /\ updateTableOwnState(SortEffect(TRUE, serverPaginationData, sortBy))
  /\ UNCHANGED <<now, rowCount, requests>>
  /\ UNCHANGED ownStateFrame

\* the sort effect runs again after a render that changed sortByFromParent or
\* handleSortByChange, and the local and the parent sortBy still differ
SortSync ==
  /\ phase = "mounted" /\ props.serverPagination
  /\ ~isEqual(tableSortBy, serverPaginationData.sortBy)
  /\ updateTableOwnState(SortEffect(TRUE, serverPaginationData, tableSortBy))
  /\ UNCHANGED <<now, rowCount, requests, tableSortBy>>
  /\ UNCHANGED ownStateFrame

\* DataTable renders again with the props it has: the forced update of the page
\* size when pageSizeRef lags behind desiredPageSize, and the page-size sync effect
\* of TableChart
Rerender ==
  /\ phase = "mounted" /\ props.serverPagination
  /\ LET desired == desiredPageSize(TRUE, serverPaginationData, pageSize, rowCount)
         forced == pageSizeRef # <<desired>>
     IN /\ pageSizeRef' = <<desired>>
        /\ updateTableOwnState(
             SyncPageSize(TRUE, pageSize,
                          ForcedPageSizeUpdate(forced, serverPaginationData,
                                               capturedOwnState, desired)))
        /\ lastOp' = [NoOp EXCEPT !.op = "rerender",
                                  !.arg = IF forced THEN "forced" ELSE ""]
  /\ UNCHANGED <<featureFlags, isTopWindow, props, phase, dedupeEnabled, DEDUPE_TTL_MS,
                 recentEvents, lastSend, lastDelivery, data, pageIndex, selectedRows,
                 pendingRows, lastSelectedRow, firstLoadRef, storage, storageThrows,
                 pageSize, capturedOwnState, message, alertTimers, lastEvent, peer,
                 visibility, barVars>>
  /\ UNCHANGED <<now, rowCount, requests, tableSortBy>>

\* the result of a query arrives with another total row count
NewRowCount ==
  /\ props.serverPagination
  /\ \E rc \in RowCounts : rc # rowCount /\ rowCount' = rc
  /\ searchTimers' = Stale(searchTimers)
  /\ UNCHANGED <<now, serverPaginationData, requests, tableSortBy>>
  /\ UNCHANGED ownStateFrame

\* the search input changes: onSearchChange is the debouncedSearch of the latest
\* render; a call restarts the timer of that instance and of no other
SearchChange ==
  /\ phase = "mounted" /\ props.serverPagination
  /\ \A t \in searchTimers : t.due > now
  /\ requests.typed < MaxTyped
  /\ \E text \in SearchTexts :
       /\ text # requests.lastText
       /\ searchTimers' = {t \in searchTimers : ~t.live} \cup
                           {[due |-> now + SearchDebounceMs, text |-> text, live |-> TRUE,
                             orphan |-> FALSE, own |-> serverPaginationData]}
       /\ requests' =
            IF requests.lastChangeAt # NoTime /\ now - requests.lastChangeAt < SearchDebounceMs
            THEN [requests EXCEPT !.changes = @ + 1, !.lastChangeAt = now, !.lastText = text,
                                  !.typed = @ + 1]
            ELSE [NoRequests EXCEPT !.changes = 1, !.lastChangeAt = now, !.lastText = text,
                                    !.orphanSearch = requests.orphanSearch,
                                    !.orphanAlert = requests.orphanAlert,
                                    !.pageReq = requests.pageReq,
                                    !.typed = requests.typed + 1,
                                    !.events = requests.events]
  /\ UNCHANGED <<now, rowCount, serverPaginationData, tableSortBy>>
  /\ UNCHANGED ownStateFrame

\* a debounce timer is due: handleSearch of the render that made the instance runs,
\* whether or not the component is still there
FireSearch ==
  /\ \E t \in searchTimers :
       /\ t.due <= now
       /\ serverPaginationData' = handleSearch(t.own, t.text)
       /\ searchTimers' = Stale(searchTimers \ {t})
       /\ requests' = [requests EXCEPT !.fired = @ + 1, !.firedAt = now,
                                       !.firedText = t.text,
                                       !.orphanSearch = @ \/ t.orphan]
  /\ UNCHANGED <<now, rowCount, tableSortBy>>
  /\ UNCHANGED ownStateFrame

\* an alert timeout is due: setMessage('') of the component that showed the alert
FireAlert ==
  /\ \E t \in alertTimers :
       /\ t.due <= now
       /\ alertTimers' = alertTimers \ {t}
       /\ message' = IF t.orphan THEN message ELSE ""
       /\ searchTimers' = IF ~t.orphan /\ message # "" THEN Stale(searchTimers)
                          ELSE searchTimers
       /\ requests' = [requests EXCEPT !.orphanAlert = @ \/ t.orphan]
  /\ UNCHANGED <<featureFlags, isTopWindow, props, phase, dedupeEnabled, DEDUPE_TTL_MS, now,
                 recentEvents, lastSend, lastDelivery, lastEvent>>
  /\ UNCHANGED selVars
  /\ UNCHANGED <<envVars, pagVars>>
  /\ UNCHANGED <<tableSortBy, peer, visibility, pageSizeRef, barVars>>

\* time passes: ElapseStep at a time while the clock is free (up to MaxTime), up to
\* the next timer that is due when one is pending
Elapse ==
  /\ \A due \in PendingDue : due > now
  /\ LET next == CHOOSE due \in PendingDue : \A other \in PendingDue : due <= other
     IN \/ /\ now + ElapseStep <= MaxTime
           /\ now' = IF PendingDue # {} /\ next < now + ElapseStep THEN next
                      ELSE now + ElapseStep
        \/ /\ PendingDue # {}
           /\ next <= MaxClock
           /\ now' = next
  /\ UNCHANGED <<featureFlags, isTopWindow, props, phase, dedupeEnabled, DEDUPE_TTL_MS,
                 recentEvents, lastSend, lastDelivery>>
  /\ UNCHANGED selVars
  /\ UNCHANGED <<envVars, pagVars, timerVars, lastEvent, requests>>
  /\ UNCHANGED <<tableSortBy, peer, visibility, pageSizeRef, barVars>>

----------------------------------------------------------------------------
(* Dispatch of action events: bulk buttons, row menus and forwarded notifications *)

chartId == Num(1)               \* the chartId of TableChart (the slice id)

BulkActionKeys == {"approve"}

\* row action configurations: no valueColumns, and valueColumns that name one column
\* of the row and one the row does not have
RowActionConfigs == { [key |-> "view", valueColumns |-> <<>>],
                      [key |-> "open", valueColumns |-> <<"zz", "id">>] }

\* Array.from(selectedRows) of handleBulkAction, then pair[1] of each pair in
\* handleTableAction: the selected rows in the order of the Map
SelectedValues(map) == [i \in 1..Len(map) |-> map[i][2]]

\* the row trimmed to valueColumns: the named columns the row has, in the order of
\* valueColumns
RECURSIVE Trimmed(_, _)
Trimmed(row, valueColumns) ==
  IF valueColumns = <<>> THEN <<>>
  ELSE LET k == Head(valueColumns)
           rest == Trimmed(row, Tail(valueColumns))
       IN IF \E i \in 1..Len(row) : row[i][1] = k
          THEN << <<k, row[Field(row, k)][2]>> >> \o rest
          ELSE rest

\* a row menu that sends the whole row whatever valueColumns says
PayloadRow_Untrimmed(row, config) == row

\* payloadRow of ActionCell.handleActionClick
PayloadRow(row, config) ==
  IF Len(config.valueColumns) > 0 THEN Trimmed(row, config.valueColumns) ELSE row

\* handleTableAction(actionKey, selected): the message of the bulk case
BulkMessage(actionKey, map) ==
  [action |-> "bulk-action", chartId |-> chartId, actionType |-> actionKey,
   values |-> SelectedValues(map), origin |-> "bulk"]

\* handleTableAction(actionInfo): the message of the row case
RowMessage(info) ==
  [action |-> info.action, chartId |-> info.chartId, actionType |-> info.key,
   values |-> info.value,
   origin |-> IF info.action = "bulk-action" THEN "bulk" ELSE "row"]

\* an enrichment that stamps every forwarded payload as 'header'
Enriched_AlwaysHeader(payload) ==
  [action |-> payload.action, chartId |-> payload.chartId,
   actionType |-> payload.actionType, values |-> payload.values,
   origin |-> "header"]

\* { origin: 'origin' in data ? data.origin : 'header', ...data }
Enriched(payload) ==
  [action |-> payload.action, chartId |-> payload.chartId,
   actionType |-> payload.actionType, values |-> payload.values,
   origin |-> Opt(payload.origin, "header")]

\* what the host forwards: a payload without origin, one with the origin of the
\* surface it stands for, as event.detail.data; <<>> for a detail without data
HostPayloads ==
  { [action |-> "bulk-action", chartId |-> chartId, actionType |-> "approve",
     values |-> << Row(1, Str("a")) >>, origin |-> o] : o \in {<<>>, <<"bulk">>} }
Notifications == {"publish-event", "alert-event", "other"}
\* event.detail: each notification with a payload that has no origin, the two the
\* listener knows also without data, and 'publish-event' also with a payload that
\* names its origin
Details ==
  { d \in [notification : Notifications, data : {<<>>} \cup {<<pl>> : pl \in HostPayloads}] :
      /\ d.notification = "other" => d.data # <<>>
      /\ d.notification # "publish-event" /\ d.data # <<>> => d.data[1].origin = <<>> }

\* JSON.stringify(eventData.data) of a forwarded payload
PayloadJson(payload) ==
  "{" \o Quote("action") \o ":" \o Quote(payload.action) \o ","
      \o Quote("chartId") \o ":" \o ScalarJson(payload.chartId) \o ","
      \o Quote("actionType") \o ":" \o Quote(payload.actionType) \o ","
      \o Quote("values") \o ":" \o RowsJson(payload.values)
      \o (IF payload.origin = <<>> THEN ""
          ELSE "," \o Quote("origin") \o ":" \o Quote(payload.origin[1])) \o "}"

\* the event a surface raised, the gate state it found, and the alert before and
\* after its handler
Event(surface, key, rows, payload) ==
  [surface |-> surface, key |-> key, rows |-> rows, payload |-> payload, at |-> now,
   map |-> recentEvents, send |-> lastSend,
   alertBefore |-> <<message, alertTimers>>, alertAfter |-> <<message', alertTimers'>>]

\* a bulk action button or dropdown item: BulkActions.handleActionClick,
\* DataTable.handleBulkAction, handleTableAction
BulkActionClick ==
  /\ phase = "mounted"
  /\ requests.events < MaxEvents
  /\ \E key \in BulkActionKeys :
       /\ doSendWindowPostMessage(BulkMessage(key, selectedRows))
       /\ lastEvent' = Event("bulk", key, selectedRows, <<>>)
  /\ requests' = [requests EXCEPT !.events = @ + 1]
  /\ UNCHANGED peer

\* an item of the menu of a rendered row: ActionCell.handleActionClick, handleTableAction
RowActionClick ==
  /\ phase = "mounted"
  /\ requests.events < MaxEvents
  /\ \E i \in 1..Len(Page), config \in RowActionConfigs :
       /\ doSendWindowPostMessage(
            RowMessage([action |-> "table-action", chartId |-> chartId,
                        key |-> config.key, value |-> << PayloadRow(Page[i], config) >>]))
       /\ lastEvent' = Event("row", config.key, << Page[i] >>, << config >>)
  /\ requests' = [requests EXCEPT !.events = @ + 1]
  /\ UNCHANGED peer

\* no second chart
NoPeer == [mounted |-> FALSE, recentEvents |-> EmptyMap, posted |-> 0]

\* handleMessage(event) of the second chart: the same listener on the same window,
\* with the recentEventsRef of its own instance
PeerHandleMessage(detail) ==
  IF peer.mounted /\ detail.data # <<>> /\ detail.notification = "publish-event"
  THEN LET r == shouldSendMessage(Enriched(detail.data[1]), now, peer.recentEvents,
                                  getRemitaDedupeEnabled(featureFlags),
                                  EffectiveTtl(featureFlags))
       IN [peer EXCEPT !.recentEvents = r.map,
                       !.posted = IF r.send /\ ~isTopWindow THEN 1 ELSE 0]
  ELSE [peer EXCEPT !.posted = 0]

\* everything but the second chart
notPeer == <<featureFlags, isTopWindow, props, phase, dedupeEnabled, DEDUPE_TTL_MS, now,
             recentEvents, lastSend, lastDelivery, data, pageIndex, selectedRows,
             pendingRows, lastSelectedRow, firstLoadRef, storage, lastOp, storageThrows,
             pageSize, rowCount, serverPaginationData, capturedOwnState, searchTimers,
             message, alertTimers, lastEvent, requests, tableSortBy, pageSizeRef,
             visibility, barVars>>

\* a second table chart of the same page mounts: its refs are fresh
PeerMount ==
  /\ ~peer.mounted
  /\ peer' = [mounted |-> TRUE, recentEvents |-> EmptyMap, posted |-> 0]
  /\ UNCHANGED notPeer

\* the second chart goes away with its refs
PeerUnmount ==
  /\ peer.mounted
  /\ peer' = NoPeer
  /\ UNCHANGED notPeer

----------------------------------------------------------------------------
(* The filter bar: its progress indicator *)

MIN_VISIBLE_MS == 400
FadeHoldMs == 220             \* window.setTimeout(() => setHoldRender(false), 220)
BarStep == 200                \* the time that passes between events of the filter bar

\* the table chart and the page: everything but the filter bar and the clock
notBar == <<featureFlags, isTopWindow, props, phase, dedupeEnabled, DEDUPE_TTL_MS,
            recentEvents, lastSend, lastDelivery, data, pageIndex, selectedRows,
            pendingRows, lastSelectedRow, firstLoadRef, storage, lastOp, storageThrows,
            pageSize, rowCount, serverPaginationData, capturedOwnState, searchTimers,
            message, alertTimers, lastEvent, requests, tableSortBy, pageSizeRef, peer,
            visibility>>

\* showProgressRaw of the vertical bar for a value of the prop
showProgressRaw(flag, prop) == flag /\ prop

\* a hide that does not wait for the minimum display time
HideDelay_None(since, t) == 0

\* delay = Math.max(0, MIN_VISIBLE_MS - (Date.now() - since))
HideDelay(since, t) == Max(0, MIN_VISIBLE_MS - (t - since))

\* the indicator is in the DOM: (progressVisible || holdRender) && ...
Rendered == progressVisible \/ holdRender

\* the showProgress prop changes; the render and its effects: the first effect
\* clears a pending hide timer and then shows the indicator or schedules the hide,
\* the second effect runs when progressVisible has changed
ShowProgressChange ==
  /\ now <= MaxTime
  /\ showProgress' = ~showProgress
  /\ IF showProgressRaw(progressEnabled, showProgress')
          = showProgressRaw(progressEnabled, showProgress)
     THEN UNCHANGED <<progressVisible, holdRender, prevVisible, visibleSinceRef, hideRef,
                      holdTimer, barLog>>
     ELSE IF showProgressRaw(progressEnabled, showProgress')
     THEN /\ hideRef' = <<>>
          /\ IF ~progressVisible
             THEN /\ progressVisible' = TRUE
                  /\ visibleSinceRef' = <<now>>
                  /\ prevVisible' = TRUE
                  /\ holdRender' = TRUE
                  /\ holdTimer' = <<>>
                  /\ barLog' = [shown |-> TRUE, visibleAt |-> now, hiddenAt |-> NoTime,
                                removedAt |-> NoTime]
             ELSE /\ UNCHANGED <<progressVisible, visibleSinceRef, prevVisible,
                                 holdRender, holdTimer>>
                  /\ barLog' = [barLog EXCEPT !.shown = TRUE]
     ELSE /\ hideRef' = IF progressVisible
                        THEN << now + HideDelay(Opt(visibleSinceRef, now), now) >>
                        ELSE <<>>
          /\ UNCHANGED <<progressVisible, holdRender, prevVisible, visibleSinceRef,
                         holdTimer, barLog>>
  /\ UNCHANGED <<now, progressEnabled>>
  /\ UNCHANGED notBar

\* the hide timer fires: setProgressVisible(false), and the effects of the render:
\* the second effect keeps the element rendered and starts the fade-out hold
HideTimerFires ==
  /\ hideRef # <<>> /\ hideRef[1] <= now
  /\ hideRef' = <<>>
  /\ progressVisible' = FALSE
  /\ visibleSinceRef' = <<>>
  /\ IF prevVisible
     THEN /\ holdRender' = TRUE
          /\ holdTimer' = << now + FadeHoldMs >>
          /\ UNCHANGED prevVisible
     ELSE /\ prevVisible' = FALSE
          /\ UNCHANGED <<holdRender, holdTimer>>
  /\ barLog' = [barLog EXCEPT !.hiddenAt = now]
  /\ UNCHANGED <<now, showProgress, progressEnabled>>
  /\ UNCHANGED notBar

\* the timer of the fade-out hold fires: setHoldRender(false)
HoldTimerFires ==
  /\ holdTimer # <<>> /\ holdTimer[1] <= now
  /\ holdTimer' = <<>>
  /\ holdRender' = FALSE
  /\ barLog' = [barLog EXCEPT !.removedAt = now]
  /\ UNCHANGED <<now, showProgress, progressEnabled, progressVisible, prevVisible,
                 visibleSinceRef, hideRef>>
  /\ UNCHANGED notBar

\* the due times of the timers of the filter bar
BarDue == {hideRef[i] : i \in DOMAIN hideRef} \cup {holdTimer[i] : i \in DOMAIN holdTimer}

\* time passes in the filter bar: BarStep at a time, up to the next timer that is due
BarElapse ==
  /\ \A due \in BarDue : due > now
  /\ \/ BarDue # {}
     \/ now + BarStep <= MaxTime
  /\ now' = IF \E due \in BarDue : due <= now + BarStep
            THEN CHOOSE due \in BarDue : \A other \in BarDue : due <= other
            ELSE now + BarStep
  /\ UNCHANGED barVars
  /\ UNCHANGED notBar

\* everything but the last visibility evaluation
notVisibility == <<featureFlags, isTopWindow, props, phase, dedupeEnabled, DEDUPE_TTL_MS,
                   now, recentEvents, lastSend, lastDelivery, data, pageIndex,
                   selectedRows, pendingRows, lastSelectedRow, firstLoadRef, storage,
                   lastOp, storageThrows, pageSize, rowCount, serverPaginationData,
                   capturedOwnState, searchTimers, message, alertTimers, lastEvent,
                   requests, tableSortBy, pageSizeRef, peer, barVars>>

\* the first ActionCell of a mounted chart filters the actions of its row:
\* config.visibilityCondition
\* ? evaluateVisibilityCondition(config.visibilityCondition, row) : true
RenderActionCell ==
  /\ phase = "mounted"
  /\ visibility = <<>>
  /\ \E condition \in Conditions, row \in VisibilityRows :
       visibility' = << [condition |-> condition, row |-> row,
                         visible |-> evaluateVisibilityCondition(condition, row)] >>
  /\ UNCHANGED notVisibility

\* the remita.notification listeners of the window: handleMessage(event) of this
\* chart and of the second one
Notify ==
  /\ phase = "mounted"
  /\ requests.events < MaxEvents
  /\ \E detail \in Details :
       /\ IF detail.data # <<>> /\ detail.notification = "alert-event"
          THEN /\ doShowAlertMessage(PayloadJson(detail.data[1]))
               /\ UNCHANGED <<featureFlags, isTopWindow, props, phase, dedupeEnabled,
                              DEDUPE_TTL_MS, now, recentEvents, lastSend, lastDelivery>>
               /\ UNCHANGED selVars
               /\ UNCHANGED <<envVars, pagVars, tableSortBy, visibility, pageSizeRef, barVars>>
          ELSE IF detail.data # <<>> /\ detail.notification = "publish-event"
          THEN doSendWindowPostMessage(Enriched(detail.data[1]))
          ELSE /\ UNCHANGED <<featureFlags, isTopWindow, props, phase, dedupeEnabled,
                              DEDUPE_TTL_MS, now, recentEvents, lastSend, lastDelivery>>
               /\ UNCHANGED selVars
               /\ UNCHANGED <<envVars, pagVars, timerVars, tableSortBy, visibility,
                              pageSizeRef, barVars>>
       /\ lastEvent' = Event(detail.notification, "", <<>>, detail.data)
       /\ peer' = PeerHandleMessage(detail)
  /\ requests' = [requests EXCEPT !.events = @ + 1]

----------------------------------------------------------------------------
(* Specifications *)

DefaultFlags == [enabled |-> "unset", ttl |-> <<>>, entry |-> "absent"]
DefaultProps == [selection_mode |-> "multiple", retain |-> FALSE, serverPagination |-> FALSE]
PropsStates == [selection_mode : {"single", "multiple"}, retain : BOOLEAN,
                serverPagination : BOOLEAN]

\* what an earlier session can have left under selectedRows_<sliceId>
InitialStorage ==
  { <<>>, << SelectionJson(<< <<"1", ParsedRow(DataA[1])>>, <<"3", ParsedRow(DataA[3])>> >>) >> }

\* the progress indicator has not been shown
NoBarLog == [shown |-> FALSE, visibleAt |-> NoTime, hiddenAt |-> NoTime,
             removedAt |-> NoTime]

\* the filter bar after its first render: showProgress false, nothing rendered
InitBar ==
  /\ showProgress = FALSE
  /\ progressEnabled = TRUE
  /\ progressVisible = FALSE
  /\ holdRender = FALSE
  /\ prevVisible = FALSE
  /\ visibleSinceRef = <<>>
  /\ hideRef = <<>>
  /\ holdTimer = <<>>
  /\ barLog = NoBarLog

InitComponent ==
  /\ phase = "unmounted"
  /\ dedupeEnabled = TRUE
  /\ DEDUPE_TTL_MS = DefaultTtlMs
  /\ recentEvents = EmptyMap
  /\ lastSend = <<>>
  /\ pageIndex = 0
  /\ selectedRows = <<>>
  /\ pendingRows = <<>>
  /\ lastSelectedRow = ""
  /\ firstLoadRef = FALSE
  /\ lastOp = NoOp
  /\ serverPaginationData = EmptyOwnState
  /\ capturedOwnState = EmptyOwnState
  /\ searchTimers = {}
  /\ message = ""
  /\ alertTimers = {}
  /\ lastEvent = NoEvent
  /\ requests = NoRequests
  /\ tableSortBy = <<>>
  /\ pageSizeRef = <<>>
  /\ peer = NoPeer
  /\ visibility = <<>>
  /\ InitBar

\* the clock at 0, a localStorage that works, the page size of client-side
\* pagination, a result of three rows
InitEnvironment ==
  /\ now = 0
  /\ storageThrows = FALSE
  /\ pageSize = PageSize
  /\ rowCount = 3

\* texts under selectedRows_<sliceId> that JSON.parse or new Map reject
CorruptStorage == { <<"{\"1\":">>, <<"{}">> }

Init ==
  /\ InitComponent
  /\ featureFlags \in FlagStates
  /\ isTopWindow \in BOOLEAN
  /\ lastDelivery \in {[of |-> StablePart(m), at |-> NoTime] : m \in Messages}
  /\ props \in PropsStates
  /\ data \in Datasets
  /\ storage \in InitialStorage \cup CorruptStorage
  /\ now = 0
  /\ storageThrows \in BOOLEAN
  /\ pageSize \in PageSizeProps
  /\ rowCount \in RowCounts

Next ==
  \/ Mount \/ RestoreSelection \/ Unmount
  \/ Send \/ SendStream \/ ResendStream \/ Tick
  \/ RowSelect \/ RadioChange \/ CheckboxChange \/ BulkSelect \/ ClearSelection
  \/ NewData \/ GotoPage
  \/ PageChange \/ SetPageSize \/ ChangeSearchCol \/ SortChange \/ NewRowCount
  \/ Rerender \/ SortSync
  \/ SearchChange \/ FireSearch \/ FireAlert \/ Elapse
  \/ BulkActionClick \/ RowActionClick \/ Notify
  \/ PeerMount \/ PeerUnmount
  \/ RenderActionCell
  \/ ShowProgressChange \/ HideTimerFires \/ HoldTimerFires \/ BarElapse

Spec == Init /\ [][Next]_vars

\* the resolution of the dedupe configuration under every state of the flags
InitConfig ==
  /\ InitComponent
  /\ featureFlags \in FlagStates
  /\ isTopWindow \in BOOLEAN
  /\ lastDelivery = [of |-> StablePart(C2Message), at |-> NoTime]
  /\ props = DefaultProps
  /\ data = DataA
  /\ storage = <<>>
  /\ InitEnvironment

NextConfig == Mount \/ Unmount \/ Tick

SpecConfig == InitConfig /\ [][NextConfig]_vars

\* the flags that resolve to: enabled with TTL 1000, 600, 500 and 0, and disabled
GateFlagStates == {ff \in FlagStates : ff.entry = "absent" /\ ff.enabled # "true"
                                        /\ (ff.enabled = "false" => ff.ttl = <<600>>)}

\* the dedupe gate of a chart embedded in a frame, the selection store left alone
InitGate ==
  /\ InitComponent
  /\ featureFlags \in GateFlagStates
  /\ isTopWindow = FALSE
  /\ lastDelivery \in {[of |-> StablePart(m), at |-> NoTime] : m \in Messages}
  /\ props = DefaultProps
  /\ data = DataA
  /\ storage = <<>>
  /\ InitEnvironment

NextGate == Mount \/ Unmount \/ Send \/ Tick

SpecGate == InitGate /\ [][NextGate]_vars

StreamTtl == 500              \* REMITA_EVENT_DEDUPE_TTL_MS of the chart that sends the stream
StreamStart == 600            \* Date.now() when the stream has filled the map

\* the map after the first PruneThreshold messages of the stream were delivered, the
\* first early of them at StreamTtl (the earliest time at which the gate delivers)
\* and the others at StreamStart
StreamMap(early) ==
  LET earlyKeys == {KeyPayloadJson(StreamMessage(n)) : n \in 1..early}
      keys == {KeyPayloadJson(StreamMessage(n)) : n \in 1..PruneThreshold}
  IN [k \in keys |-> IF k \in earlyKeys THEN StreamTtl ELSE StreamStart]

\* the dedupe gate of a mounted chart that has delivered PruneThreshold distinct
\* messages, some of them earlier than the others, and goes on sending
InitPrune ==
  /\ featureFlags = [DefaultFlags EXCEPT !.ttl = <<StreamTtl>>]
  /\ isTopWindow = FALSE
  /\ props = DefaultProps
  /\ data = DataA
  /\ storage = <<>>
  /\ storageThrows = FALSE
  /\ pageSize = PageSize
  /\ rowCount = 3
  /\ phase = "mounted"
  /\ dedupeEnabled = getRemitaDedupeEnabled(featureFlags)
  /\ DEDUPE_TTL_MS = EffectiveTtl(featureFlags)
  /\ now = StreamStart
  /\ \E early \in {0, 1, PruneThreshold - 1, PruneThreshold} :
       /\ recentEvents = StreamMap(early)
       /\ lastDelivery = [of |-> StablePart(StreamMessage(1)),
                          at |-> IF early > 0 THEN StreamTtl ELSE StreamStart]
       /\ LET m == StreamMessage(PruneThreshold)
              at == IF early = PruneThreshold THEN StreamTtl ELSE StreamStart
          IN lastSend = << [m |-> m, at |-> at, send |-> TRUE, target |-> "postMessage",
                            key |-> makeEventKey(m, at), prev |-> NoTime,
                            fresh |-> FALSE] >>
  /\ pageIndex = 0
  /\ selectedRows = <<>>
  /\ pendingRows = <<>>
  /\ lastSelectedRow = ""
  /\ firstLoadRef = TRUE
  /\ lastOp = [NoOp EXCEPT !.op = "mount"]
  /\ serverPaginationData = EmptyOwnState
  /\ capturedOwnState = EmptyOwnState
  /\ searchTimers = {}
  /\ message = ""
  /\ alertTimers = {}
  /\ lastEvent = NoEvent
  /\ requests = NoRequests
  /\ tableSortBy = <<>>
  /\ pageSizeRef = << desiredPageSize(FALSE, EmptyOwnState, PageSize, Len(DataA)) >>
  /\ peer = NoPeer
  /\ visibility = <<>>
  /\ InitBar

NextPrune == SendStream \/ ResendStream \/ Tick

SpecPrune == InitPrune /\ [][NextPrune]_vars

\* the selection store under every choice of props, the dedupe gate left alone
InitSelection ==
  /\ InitComponent
  /\ featureFlags = DefaultFlags
  /\ isTopWindow = FALSE
  /\ lastDelivery = [of |-> StablePart(C2Message), at |-> NoTime]
  /\ props \in PropsStates
  /\ data \in Datasets
  /\ storage \in InitialStorage
  /\ InitEnvironment

NextSelection ==
  \/ Mount \/ RestoreSelection \/ Unmount
  \/ RowSelect \/ RadioChange \/ CheckboxChange \/ BulkSelect \/ ClearSelection
  \/ NewData \/ GotoPage

SpecSelection == InitSelection /\ [][NextSelection]_vars

\* the selection store over a storage that can hold anything and can throw
InitStorage ==
  /\ InitComponent
  /\ featureFlags = DefaultFlags
  /\ isTopWindow = FALSE
  /\ lastDelivery = [of |-> StablePart(C2Message), at |-> NoTime]
  /\ props \in {ps \in PropsStates : ps.selection_mode = "multiple" /\ ~ps.serverPagination}
  /\ data = DataA
  /\ storage \in InitialStorage \cup CorruptStorage
  /\ now = 0
  /\ storageThrows \in BOOLEAN
  /\ pageSize = PageSize
  /\ rowCount = 3

NextStorage ==
  \/ Mount \/ RestoreSelection \/ Unmount
  \/ CheckboxChange \/ BulkSelect \/ ClearSelection

SpecStorage == InitStorage /\ [][NextStorage]_vars

\* server-side pagination under every page size prop and total row count
InitServer ==
  /\ InitComponent
  /\ now = 0
  /\ featureFlags = DefaultFlags
  /\ isTopWindow = FALSE
  /\ lastDelivery = [of |-> StablePart(C2Message), at |-> NoTime]
  /\ props = [DefaultProps EXCEPT !.serverPagination = TRUE]
  /\ data = DataA
  /\ storage = <<>>
  /\ storageThrows = FALSE
  /\ pageSize \in PageSizeProps
  /\ rowCount \in RowCounts

NextServer ==
  \/ Mount \/ Unmount
  \/ PageChange \/ SetPageSize \/ ChangeSearchCol \/ SortChange \/ NewRowCount
  \/ Rerender \/ SortSync

SpecServer == InitServer /\ [][NextServer]_vars

\* the debounced search of server mode and the renders that come between its calls
InitSearch ==
  /\ InitComponent
  /\ featureFlags = DefaultFlags
  /\ isTopWindow = FALSE
  /\ lastDelivery = [of |-> StablePart(C2Message), at |-> NoTime]
  /\ props = [DefaultProps EXCEPT !.serverPagination = TRUE]
  /\ data = DataA
  /\ storage = <<>>
  /\ InitEnvironment

NextSearch ==
  \/ Mount \/ Unmount
  \/ SearchChange \/ FireSearch \/ Elapse
  \/ ClearSelection

SpecSearch == InitSearch /\ [][NextSearch]_vars

\* the dispatch of action events through the gate, in a top-level window and in a
\* frame, and the alerts it shows; the clock starts past the default TTL, where a
\* first send passes the gate
InitDispatch ==
  /\ InitComponent
  /\ featureFlags = DefaultFlags
  /\ isTopWindow \in BOOLEAN
  /\ lastDelivery = [of |-> StablePart(C2Message), at |-> NoTime]
  /\ props = DefaultProps
  /\ data = DataB
  /\ storage = <<>>
  /\ now = MaxTime
  /\ storageThrows = FALSE
  /\ pageSize = PageSize
  /\ rowCount = 3

NextDispatch ==
  \/ Mount \/ Unmount
  \/ CheckboxChange
  \/ BulkActionClick \/ RowActionClick \/ Notify
  \/ FireAlert \/ Elapse

SpecDispatch == InitDispatch /\ [][NextDispatch]_vars

\* the action cells of a mounted chart
InitVisibility ==
  /\ InitComponent
  /\ featureFlags = DefaultFlags
  /\ isTopWindow = FALSE
  /\ lastDelivery = [of |-> StablePart(C2Message), at |-> NoTime]
  /\ props = DefaultProps
  /\ data = DataB
  /\ storage = <<>>
  /\ InitEnvironment

NextVisibility == Mount \/ Unmount \/ RenderActionCell

SpecVisibility == InitVisibility /\ [][NextVisibility]_vars

\* the progress indicator of the filter bar, and the same with timers that fire
\* and a clock that advances
InitBarSpec ==
  /\ InitComponent
  /\ featureFlags = DefaultFlags
  /\ isTopWindow = FALSE
  /\ lastDelivery = [of |-> StablePart(C2Message), at |-> NoTime]
  /\ props = DefaultProps
  /\ data = DataB
  /\ storage = <<>>
  /\ InitEnvironment

NextBar == ShowProgressChange \/ HideTimerFires \/ HoldTimerFires \/ BarElapse

SpecBar == InitBarSpec /\ [][NextBar]_vars

SpecBarLive ==
  /\ SpecBar
  /\ WF_vars(HideTimerFires) /\ WF_vars(HoldTimerFires) /\ WF_vars(BarElapse)

\* two table charts of one embedded page and the events of its window
InitPeers ==
  /\ InitComponent
  /\ featureFlags = DefaultFlags
  /\ isTopWindow = FALSE
  /\ lastDelivery = [of |-> StablePart(C2Message), at |-> NoTime]
  /\ props = DefaultProps
  /\ data = DataB
  /\ storage = <<>>
  /\ InitEnvironment

NextPeers ==
  \/ Mount \/ Unmount \/ PeerMount \/ PeerUnmount
  \/ Notify \/ FireAlert \/ Elapse

SpecPeers == InitPeers /\ [][NextPeers]_vars

\* alerts of a chart in a top-level window, shown at different times
InitAlert ==
  /\ InitComponent
  /\ featureFlags = DefaultFlags
  /\ isTopWindow = TRUE
  /\ lastDelivery = [of |-> StablePart(C2Message), at |-> NoTime]
  /\ props = DefaultProps
  /\ data = DataB
  /\ storage = <<>>
  /\ InitEnvironment

NextAlert == Mount \/ Unmount \/ Notify \/ FireAlert \/ Elapse

SpecAlert == InitAlert /\ [][NextAlert]_vars

----------------------------------------------------------------------------
(* Claims about the event dedupe gate (SpecGate, SpecConfig) *)

GateOn == dedupeEnabled /\ DEDUPE_TTL_MS > 0

\* the last send is of the payload whose deliveries lastDelivery records, and that
\* payload passed the gate before in this mount
Resent == lastSend # <<>> /\ lastSend[1].prev # NoTime

C1_WitnessRedelivered ==
  /\ GateOn /\ Resent /\ ~MessageThrows(lastSend[1].m)
  /\ lastSend[1].at - lastSend[1].prev >= DEDUPE_TTL_MS
  /\ lastSend[1].send

SentC2Message ==
  /\ lastSend # <<>>
  /\ StablePart(lastSend[1].m) = StablePart(C2Message)
  /\ lastDelivery.of = StablePart(C2Message)

C3_DisabledAlwaysSends ==
  (~dedupeEnabled \/ DEDUPE_TTL_MS <= 0) =>
     /\ recentEvents = EmptyMap
     /\ (lastSend # <<>> => lastSend[1].send /\ lastSend[1].target # "none")

\* with the gate off, a message sent twice at the same clock reading, delivered both times
C3_Witness ==
  /\ (~dedupeEnabled \/ DEDUPE_TTL_MS <= 0)
  /\ Resent
  /\ lastSend[1].at = lastSend[1].prev
  /\ lastSend[1].send

\* two objects with the same key/value pairs, in whatever order the keys were written
SameObject(o1, o2) == Range(o1) = Range(o2)

\* agreement on action, chartId, actionType and values that ignores key order
StructAgree(m1, m2) ==
  /\ m1.action = m2.action /\ m1.chartId = m2.chartId /\ m1.actionType = m2.actionType
  /\ Len(m1.values) = Len(m2.values)
  /\ \A i \in 1..Len(m1.values) : SameObject(m1.values[i], m2.values[i])

\* agreement on what JSON can tell apart: the same scalars (a Date and its ISO
\* string alike) under the same keys in the same order
JsonAgree(m1, m2) ==
  /\ m1.action = m2.action /\ m1.actionType = m2.actionType
  /\ ParsedScalar(m1.chartId) = ParsedScalar(m2.chartId)
  /\ Len(m1.values) = Len(m2.values)
  /\ \A i \in 1..Len(m1.values) : ParsedRow(m1.values[i]) = ParsedRow(m2.values[i])

\* C4 as stated: a message has the fingerprint of the message just sent exactly when
\* the two agree on action, chartId, actionType and values, key order ignored
C4_Original ==
  (GateOn /\ lastSend # <<>>) =>
     \A m2 \in Messages :
        (makeEventKey(m2, lastSend[1].at) = lastSend[1].key) <=> StructAgree(lastSend[1].m, m2)

\* C4 amended: among messages that JSON.stringify can serialize, a message has the
\* fingerprint of the message just sent exactly when the two have the same action,
\* chartId, actionType and values with the keys of every object in the same order;
\* origin never distinguishes them
C4_KeyOrderSensitive ==
  (GateOn /\ lastSend # <<>> /\ ~MessageThrows(lastSend[1].m)) =>
     \A m2 \in {m \in Messages : ~MessageThrows(m)} :
        (makeEventKey(m2, lastSend[1].at) = lastSend[1].key) <=> JsonAgree(lastSend[1].m, m2)

\* the message just sent has a twin with another origin and the same fingerprint,
\* and a twin with the keys of its row in another order and another fingerprint
C4_Witness ==
  /\ GateOn /\ lastSend # <<>> /\ ~MessageThrows(lastSend[1].m)
  /\ \E m2 \in Messages : /\ m2.origin # lastSend[1].m.origin
                          /\ makeEventKey(m2, lastSend[1].at) = lastSend[1].key
  /\ lastSend[1].key \in DOMAIN recentEvents
  /\ \E m3 \in Messages : /\ StructAgree(lastSend[1].m, m3)
                          /\ makeEventKey(m3, lastSend[1].at) # lastSend[1].key

\* C5: the window flag decides when it is a boolean, else the FeatureFlag entry when
\* there is one, else dedupe is enabled; the TTL is the window TTL when it is a
\* number and 1000 otherwise, and 0 whenever dedupe is disabled
C5_Resolution ==
  phase # "unmounted" =>
     /\ (featureFlags.enabled = "true" => dedupeEnabled)
     /\ (featureFlags.enabled = "false" => ~dedupeEnabled)
     /\ (featureFlags.enabled = "unset" /\ featureFlags.entry = "on" => dedupeEnabled)
     /\ (featureFlags.enabled = "unset" /\ featureFlags.entry = "off" => ~dedupeEnabled)
     /\ (featureFlags.enabled = "unset" /\ featureFlags.entry = "absent" => dedupeEnabled)
     /\ (dedupeEnabled /\ featureFlags.ttl # <<>> => DEDUPE_TTL_MS = featureFlags.ttl[1])
     /\ (dedupeEnabled /\ featureFlags.ttl = <<>> => DEDUPE_TTL_MS = 1000)
     /\ (~dedupeEnabled => DEDUPE_TTL_MS = 0)

\* mounted with no window flag, the FeatureFlag entry off and a window TTL of 600:
\* the entry decided, and the effective TTL is 0
C5_Witness ==
  /\ phase = "mounted"
  /\ featureFlags = [enabled |-> "unset", ttl |-> <<600>>, entry |-> "off"]
  /\ ~dedupeEnabled /\ DEDUPE_TTL_MS = 0

----------------------------------------------------------------------------
(* Claims about the selection store (SpecSelection) *)

Before == lastOp.before[1]
VisibleSet == Range(VisibleIds(lastOp.visible))

\* an id is selected with the same row snapshot in both Maps, or in neither
SameEntry(m1, m2, id) ==
  /\ Has(m1, id) <=> Has(m2, id)
  /\ Has(m1, id) => Get(m1, id) = Get(m2, id)

\* C6: in single mode a row selected through the radio or through handleRowSelect
\* replaces the whole selection: afterwards that row is the only selected one
C6_SingleReplaces ==
  (props.selection_mode = "single" /\ lastOp.op \in {"radio", "row"}
     /\ FindRow(data, lastOp.arg) # <<>>) =>
        selectedRows = << <<lastOp.arg, FindRow(data, lastOp.arg)[1]>> >>

\* C7: a shift-click range selection in multiple mode removes no selected row,
\* leaves every row outside the visible page as it was, changes only rows of the
\* span between the two endpoints inside the visible page, and changes nothing
\* when an endpoint is not on the visible page
C7_RangeWithinPage ==
  (props.selection_mode = "multiple" /\ lastOp.op = "row" /\ lastOp.shift
     /\ lastOp.last # "") =>
        LET ids == VisibleIds(lastOp.visible)
            startIdx == IndexOf(ids, lastOp.last)
            endIdx == IndexOf(ids, lastOp.arg)
        IN /\ Keys(Before) \subseteq Keys(selectedRows)
           /\ \A id \in AllIds \ VisibleSet : SameEntry(Before, selectedRows, id)
           /\ (startIdx = 0 \/ endIdx = 0) => selectedRows = Before
           /\ (startIdx > 0 /\ endIdx > 0) =>
                 \A id \in AllIds :
                    ~SameEntry(Before, selectedRows, id) =>
                       IndexOf(ids, id) \in Min(startIdx, endIdx)..Max(startIdx, endIdx)

AllVisibleSelected(map) == VisibleSet # {} /\ VisibleSet \subseteq Keys(map)

\* C8: toggleAll over a non-empty page whose ids are all selected removes exactly
\* those ids; otherwise it adds every visible row; either way every id that is not
\* on the page keeps its membership and its stored row
C8_ToggleAll ==
  lastOp.op = "bulk" =>
     /\ AllVisibleSelected(Before) => Keys(selectedRows) = Keys(Before) \ VisibleSet
     /\ ~AllVisibleSelected(Before) =>
           /\ Keys(selectedRows) = Keys(Before) \cup VisibleSet
           /\ \A i \in 1..Len(lastOp.visible) :
                 Get(selectedRows, RowId(lastOp.visible[i])) = lastOp.visible[i]
     /\ \A id \in AllIds \ VisibleSet : SameEntry(Before, selectedRows, id)

\* toggleAll took the ids of a fully selected page out and left the row that is
\* selected on no visible row in
C8_Witness ==
  /\ lastOp.op = "bulk"
  /\ AllVisibleSelected(Before)
  /\ Keys(Before) \ VisibleSet # {}
  /\ selectedRows # <<>>

\* toggleAll added the rows of a page that was selected in part
C8_WitnessAdd ==
  /\ lastOp.op = "bulk"
  /\ ~AllVisibleSelected(Before)
  /\ VisibleSet \cap Keys(Before) # {}
  /\ Keys(Before) \ VisibleSet # {}

TwiceToggled == lastOp.op = "bulk" /\ lastOp.before2 # <<>>

\* C9 as stated: toggleAll called twice in succession with the same visible rows
\* leaves the ids that were selected before the first call
C9_Original ==
  TwiceToggled => Keys(selectedRows) = Keys(lastOp.before2[1])

\* C9 amended: the same, when before the first call the visible rows were all
\* selected or none of them was
C9_AllOrNone ==
  (TwiceToggled /\ (VisibleSet \subseteq Keys(lastOp.before2[1])
                      \/ VisibleSet \cap Keys(lastOp.before2[1]) = {})) =>
     Keys(selectedRows) = Keys(lastOp.before2[1])

\* two calls over a non-empty page all of whose rows, and a row elsewhere, were selected
C9_Witness ==
  /\ TwiceToggled
  /\ VisibleSet # {}
  /\ VisibleSet \subseteq Keys(lastOp.before2[1])
  /\ Keys(lastOp.before2[1]) \ VisibleSet # {}

Remounted == phase = "mounted" /\ lastOp.op = "mount" /\ lastOp.before # <<>>

\* C10: with retention enabled the selection restored by a fresh mount is the one
\* the component held when it was unmounted, ids, order and rows alike (stated for
\* the selections JSON.stringify did not throw on); with retention disabled a fresh
\* mount has an empty selection and no selectedRows_<chartId> in storage
C10_RoundTrip ==
  /\ (Remounted /\ props.retain /\ ~EntryThrows(Before)) => selectedRows = Before
  /\ (phase = "mounted" /\ lastOp.op = "mount" /\ ~props.retain) =>
        selectedRows = <<>> /\ storage = <<>>

\* C11: a read, parse or write failure of the storage item selectedRows_<chartId>
\* (corrupt text, a localStorage that throws) never leaves the mount: the mount
\* completes with the empty selection, and the gestures that follow work
C11_StorageFailureContained ==
  /\ phase # "crashed"
  /\ (lastOp.op = "mount" /\ lastOp.arg = "storage failed") =>
        phase = "mounted" /\ selectedRows = <<>> /\ pendingRows = <<>>

----------------------------------------------------------------------------
(* Claims about server-side pagination and search (SpecServer, SpecSearch) *)

ServerRendered == phase = "mounted" /\ props.serverPagination

\* serverPaginationData?.pageSize ?? initialPageSize
ServerSize == Opt(serverPaginationData.pageSize, pageSize)

\* the least n with n * size >= count
Ceil(count, size) == CHOOSE n \in 0..count : n * size >= count /\ (n = 0 \/ (n - 1) * size < count)

RenderedPageCount == resultPageCount(rowCount, serverPaginationData, pageSize)
TablePageCount == serverPageCount(props.serverPagination, rowCount, serverPaginationData,
                                  pageSize)

\* C12 as stated: the rendered page count is ceil(rowCount / pageSize) for a positive
\* page size and 0 for a page size of 0, and serverPageCount is the same number as
\* resultPageCount in every state
C12_Original ==
  ServerRendered =>
     /\ (ServerSize > 0 => RenderedPageCount = Ceil(rowCount, ServerSize))
     /\ (ServerSize = 0 => RenderedPageCount = 0)
     /\ TablePageCount = << Finite(RenderedPageCount) >>

\* C12 amended: the two page counts are ceil(rowCount / pageSize) and equal for a
\* positive page size; for a page size of 0 resultPageCount is 0 while serverPageCount
\* is ceil(rowCount / 10)
C12_PositiveSize ==
  ServerRendered =>
     /\ (ServerSize > 0 => /\ RenderedPageCount = Ceil(rowCount, ServerSize)
                           /\ TablePageCount = << Finite(RenderedPageCount) >>)
     /\ (ServerSize = 0 => /\ RenderedPageCount = 0
                           /\ TablePageCount = << Finite(Ceil(rowCount, FallbackPageSize)) >>)

\* a last page that is not full: the count is rounded up
C12_Witness ==
  /\ ServerRendered
  /\ ServerSize > 0
  /\ rowCount > ServerSize
  /\ rowCount % ServerSize # 0
  /\ RenderedPageCount * ServerSize > rowCount

\* a page size of 0 with rows: no page for the pagination control, one for the table
C12_WitnessZero ==
  /\ ServerRendered
  /\ ServerSize = 0
  /\ rowCount > 0
  /\ RenderedPageCount = 0
  /\ TablePageCount = << Finite(1) >>

\* C13: in server mode, whenever totalRowCount > 0, the page shown satisfies
\* currentPage * pageSize < totalRowCount
C13_PageWithinRange ==
  (ServerRendered /\ rowCount > 0) =>
     resultCurrentPage(serverPaginationData) * ServerSize < rowCount

LargestOption == pageSizeOptions(rowCount)[Len(pageSizeOptions(rowCount))]

\* C14: when the page size is not among the page size options and there are options,
\* the size shown in the selector, the size the page count is computed with and the
\* size sent with page-change requests are the largest option
C14_FallbackInEffect ==
  /\ (/\ ServerRendered
      /\ pageSizeOptions(rowCount) # <<>>
      /\ ServerSize \notin Range(pageSizeOptions(rowCount))) =>
        /\ resultCurrentPageSize(rowCount, serverPaginationData, pageSize) = LargestOption
        /\ RenderedPageCount = Ceil(rowCount, LargestOption)
  /\ (requests.pageReq # <<>> => requests.pageReq[1].size = requests.pageReq[1].shown)

\* C15: a burst of search-input changes, each less than 800 ms after the one before,
\* with or without renders in between, ends in exactly one handleSearch call, 800 ms
\* after the last change and with the last text
C15_OneRequestPerBurst ==
  (requests.changes > 0 /\ ~requests.unmounted) =>
     /\ requests.fired <= 1
     /\ (requests.fired = 1 =>
           /\ requests.firedAt = requests.lastChangeAt + SearchDebounceMs
           /\ requests.firedText = requests.lastText)
     /\ (searchTimers = {} => requests.fired = 1)

\* C16: no timer of a component that has been unmounted fires: neither a pending
\* debounced search nor a pending alert timeout
C16_TimersCancelledOnUnmount ==
  /\ ~requests.orphanSearch
  /\ ~requests.orphanAlert

----------------------------------------------------------------------------
(* Claims about the dispatch of action events (SpecDispatch) *)

Sent == lastSend[1].m

\* the last event called doSendWindowPostMessage, at the time of the event
ThroughGate == lastSend # <<>> /\ lastSend[1].at = lastEvent.at

BulkClicked == lastEvent.surface = "bulk"
RowClicked == lastEvent.surface = "row"
Forwarded == lastEvent.surface = "publish-event" /\ lastEvent.payload # <<>>

\* the message of a bulk action: 'bulk-action', the key of the action, the selected
\* rows in the order of the selection, origin 'bulk'
BulkShape ==
  /\ ThroughGate
  /\ Sent.action = "bulk-action" /\ Sent.origin = "bulk"
  /\ Sent.chartId = chartId /\ Sent.actionType = lastEvent.key
  /\ Len(Sent.values) = Len(lastEvent.rows)
  /\ \A i \in 1..Len(lastEvent.rows) : Sent.values[i] = lastEvent.rows[i][2]

\* the message of a row action: 'table-action', the key of the action, the clicked
\* row, with the columns valueColumns names when it names any, origin 'row'
RowShape ==
  /\ ThroughGate
  /\ Sent.action = "table-action" /\ Sent.origin = "row"
  /\ Sent.chartId = chartId /\ Sent.actionType = lastEvent.key
  /\ Len(Sent.values) = 1
  /\ LET row == lastEvent.rows[1]
         columns == Range(lastEvent.payload[1].valueColumns)
     IN IF columns = {} THEN Sent.values[1] = row
        ELSE Range(Sent.values[1]) = {pair \in Range(row) : pair[1] \in columns}

\* the fields of the forwarded payload, as they were
PayloadKept ==
  /\ ThroughGate
  /\ Sent.action = lastEvent.payload[1].action
  /\ Sent.chartId = lastEvent.payload[1].chartId
  /\ Sent.actionType = lastEvent.payload[1].actionType
  /\ Sent.values = lastEvent.payload[1].values

C17_WitnessRow ==
  /\ RowClicked
  /\ lastEvent.payload[1].valueColumns # <<>>
  /\ lastSend # <<>> /\ lastSend[1].send
  /\ Len(Sent.values[1]) < Len(lastEvent.rows[1])

\* a forwarded payload that names its own origin, delivered
C17_WitnessForwarded ==
  /\ Forwarded
  /\ lastEvent.payload[1].origin = <<"bulk">>
  /\ lastSend # <<>> /\ lastSend[1].send

\* C18: a message that passes the gate goes to exactly one target, the alert in a
\* top-level window and postMessage to the parent otherwise; a suppressed message
\* goes to neither
C18_ExactlyOneTarget ==
  lastSend # <<>> =>
     /\ (lastSend[1].send =>
           lastSend[1].target = IF isTopWindow THEN "alert" ELSE "postMessage")
     /\ (~lastSend[1].send => lastSend[1].target = "none")

Suppressed == ~lastSend[1].send /\ lastSend[1].target = "none"
Delivered == lastSend[1].send /\ lastSend[1].target \in {"alert", "postMessage"}

\* C19: every click on an action button ends either suppressed by the gate or
\* delivered, never both and never neither
C19_ClickOutcome ==
  (BulkClicked \/ RowClicked) =>
     /\ ThroughGate
     /\ (Suppressed \/ Delivered)
     /\ ~(Suppressed /\ Delivered)

AlertEvent == lastEvent.surface = "alert-event" /\ lastEvent.payload # <<>>
Ignored == \/ lastEvent.surface = "other"
           \/ lastEvent.surface \in Notifications /\ lastEvent.payload = <<>>
GateUntouched == lastSend = lastEvent.send /\ recentEvents = lastEvent.map

C20_WitnessForwarded ==
  /\ Forwarded
  /\ lastEvent.payload[1].origin = <<>>
  /\ lastSend # <<>> /\ lastSend[1].send /\ lastSend[1].target = "postMessage"

----------------------------------------------------------------------------
(* Claims about suppressed sends and pruning (SpecGate, SpecPrune) *)

\* a step that is a send the gate suppressed
SuppressedSend == lastSend' # <<>> /\ lastSend' # lastSend /\ ~lastSend'[1].send

\* C23: a suppressed send leaves the dedupe map as it was, the timestamp of its own
\* fingerprint included, and so a message sent at least TTL ms after its last
\* delivery is delivered, whatever was suppressed in between
C23_SuppressedKeepsWindow ==
  /\ [][SuppressedSend => recentEvents' = recentEvents]_vars
  /\ [](lastSend # <<>> /\ lastSend[1].prev # NoTime
          /\ lastSend[1].at - lastSend[1].prev >= DEDUPE_TTL_MS => lastSend[1].send)

\* a send suppressed some time after the delivery of the same message: the map
\* still holds the time of that delivery
C23_Witness ==
  /\ GateOn
  /\ lastSend # <<>> /\ ~lastSend[1].send
  /\ lastSend[1].prev # NoTime /\ lastSend[1].at > lastSend[1].prev
  /\ lastSend[1].key \in DOMAIN recentEvents
  /\ recentEvents[lastSend[1].key] = lastSend[1].prev

DeliveredSend == lastSend' # <<>> /\ lastSend' # lastSend /\ lastSend'[1].send

\* the entries that count as delivered within the last TTL milliseconds at time t
RecentKeys(map, t) == {k \in DOMAIN map : map[k] >= t - DEDUPE_TTL_MS}

\* the size bound, read as a property of the map at every moment
SizeBound == Cardinality(DOMAIN recentEvents)
               <= PruneThreshold + Cardinality(RecentKeys(recentEvents, now))

\* C24 as stated: at all times the map holds at most 200 entries more than the
\* fingerprints delivered within the last TTL milliseconds
C24_Original == GateOn => SizeBound

\* C24: a delivered send that leaves the map with more than 200 entries removes
\* every entry older than now - TTL in that same send; no send removes or changes
\* an entry that is not older than now - TTL; a message sent again less than TTL
\* after its last delivery stays suppressed whatever was pruned in between; and
\* right after a delivered send the map holds at most 200 entries more than the
\* fingerprints delivered within the last TTL milliseconds (between sends the
\* entries that have grown old stay until the next delivered send)
C24_PruneOnDelivery ==
  /\ [][GateOn /\ DeliveredSend =>
          LET key == lastSend'[1].key
              cutoff == now - DEDUPE_TTL_MS
          IN /\ key \in DOMAIN recentEvents' /\ recentEvents'[key] = now
             /\ \A k \in DOMAIN recentEvents \ {key} :
                   recentEvents[k] >= cutoff =>
                     k \in DOMAIN recentEvents' /\ recentEvents'[k] = recentEvents[k]
             /\ Cardinality(DOMAIN recentEvents \cup {key}) > PruneThreshold =>
                   \A k \in DOMAIN recentEvents' : recentEvents'[k] >= cutoff
             /\ Cardinality(DOMAIN recentEvents \cup {key}) <= PruneThreshold =>
                   DOMAIN recentEvents' = DOMAIN recentEvents \cup {key}
             /\ SizeBound']_vars
  /\ [](GateOn /\ lastSend # <<>> /\ lastSend[1].prev # NoTime
          /\ lastSend[1].at - lastSend[1].prev < DEDUPE_TTL_MS => ~lastSend[1].send)

\* a delivered send of a message beyond the 200th of the stream has just removed the
\* old entries and kept one that was delivered earlier but not before now - TTL
C24_Witness ==
  /\ GateOn /\ lastSend # <<>> /\ lastSend[1].send /\ lastSend[1].at = now
  /\ \E n \in (PruneThreshold + 1)..(PruneThreshold + MaxExtra) :
       lastSend[1].m = StreamMessage(n)
  /\ Cardinality(DOMAIN recentEvents) < PruneThreshold
  /\ \E k \in DOMAIN recentEvents : recentEvents[k] < now

\* the first message of the stream was sent again less than TTL after its delivery
\* and suppressed, with a map that has been pruned
C24_WitnessSuppressed ==
  /\ GateOn /\ lastSend # <<>> /\ ~lastSend[1].send /\ lastSend[1].prev # NoTime
  /\ lastSend[1].m = StreamMessage(1)
  /\ Cardinality(DOMAIN recentEvents) < PruneThreshold

----------------------------------------------------------------------------
(* Claims about the persisted selection across a mount (SpecSelection) *)

\* the mount effects have run and no gesture has happened since
BeforeFirstGesture == lastOp.op = "mount" /\ phase \in {"restoring", "mounted"}

\* C30: with retention enabled, in every state between the start of the mount
\* effects and the first user gesture the value stored under selectedRows_<chartId>
\* is the non-empty selection that was persisted before the mount (which the load
\* effect has parsed and scheduled for the next render)
C30_MountKeepsPersisted ==
  props.retain /\ BeforeFirstGesture /\ phase = "restoring" =>
    storage # <<>> /\ ParseSelection(storage[1]) = pendingRows[1]

----------------------------------------------------------------------------
(* Claims about the dismissal of alerts (SpecAlert) *)

\* C26: an alert stays visible until its own 5 seconds are over: when the dismiss
\* timer of a first alert fires while a second alert, shown less than 5 seconds
\* after the first, still has time left, the second alert stays visible
C26_AlertStaysFiveSeconds ==
  [][\A first \in alertTimers \ alertTimers' : \A second \in alertTimers' :
       /\ ~first.orphan /\ ~second.orphan
       /\ first.due < second.due
       /\ second.due - AlertDismissMs < first.due
       /\ second.due > now
       => message' # ""]_vars

----------------------------------------------------------------------------
(* Claims about the fields an ownState update carries (SpecServer) *)

\* the fields of the ownState that are the same before and after the step
Keeps(fields) == \A f \in fields : serverPaginationData'[f] = serverPaginationData[f]

\* C27: every ownState update changes only its own fields and carries the current
\* values of the others: a page change keeps the current sortBy, searchColumn and
\* searchText, a page-size change too, and a sort change keeps the page, the page
\* size and the search
C27_UpdatesCarryCurrentState ==
  [][/\ PageChange => Keeps({"sortBy", "searchColumn", "searchText"})
     /\ SetPageSize => Keeps({"sortBy", "searchColumn", "searchText"})
     /\ SortChange => Keeps({"currentPage", "pageSize", "searchColumn", "searchText"})
     /\ ChangeSearchCol => Keeps({"currentPage", "pageSize", "sortBy"})]_vars

----------------------------------------------------------------------------
(* Claims about what resets the page in server mode (SpecServer) *)

\* the step writes nothing to the ownState, or it is the initial sync: the ownState
\* had no pageSize and gets the configured one with page 0
NothingOrInitialSync ==
  \/ serverPaginationData' = serverPaginationData
  \/ /\ serverPaginationData.pageSize = <<>> /\ pageSize # 0
     /\ serverPaginationData' = [serverPaginationData EXCEPT !.currentPage = <<0>>,
                                                             !.pageSize = <<pageSize>>]

\* C25: in server mode a choice in the page-size selector sets the page to 0 and
\* the size to the chosen one; a render with unchanged input, with or without the
\* forced update of the internal page size, a mount and a new row count leave the
\* ownState alone, except for the initial sync, which writes {currentPage: 0,
\* pageSize} only while the ownState has no pageSize
C25_PageResetOnlyExplicit ==
  [][/\ SetPageSize => /\ serverPaginationData'.currentPage = <<0>>
                       /\ serverPaginationData'.pageSize # <<>>
                       /\ serverPaginationData'.pageSize[1]
                            \in Range(pageSizeOptions(rowCount))
     /\ Rerender => NothingOrInitialSync
     /\ NewRowCount => serverPaginationData' = serverPaginationData
     /\ Mount => Keeps({"searchColumn", "searchText"})
                 /\ (serverPaginationData.pageSize # <<>>
                       => Keeps({"currentPage", "pageSize"}))
                 /\ (~Keeps({"currentPage", "pageSize"})
                       => /\ serverPaginationData.pageSize = <<>> /\ pageSize # 0
                          /\ serverPaginationData'.currentPage = <<0>>
                          /\ serverPaginationData'.pageSize = <<pageSize>>)]_vars

\* a render has just forced the internal page size to the one the user chose, and
\* the page the user went to afterwards is still the current one
C25_Witness ==
  /\ props.serverPagination /\ phase = "mounted"
  /\ lastOp.op = "rerender" /\ lastOp.arg = "forced"
  /\ serverPaginationData.pageSize # <<>> /\ serverPaginationData.pageSize[1] # pageSize
  /\ serverPaginationData.currentPage \notin {<<>>, <<0>>}

\* the chart was mounted again over an ownState with a page and a size: both stayed
C25_WitnessMount ==
  /\ props.serverPagination /\ phase = "mounted" /\ lastOp.op = "mount"
  /\ serverPaginationData.pageSize # <<>> /\ serverPaginationData.pageSize[1] # pageSize
  /\ serverPaginationData.currentPage \notin {<<>>, <<0>>}

----------------------------------------------------------------------------
(* Claims about the sort synchronisation (SpecServer) *)

\* C28: in server mode a sort spec that the parent's ownState holds when the chart
\* mounts is not cleared by the sort synchronisation of the mount
C28_MountKeepsSort ==
  [][Mount /\ props.serverPagination => Keeps({"sortBy"})]_vars

----------------------------------------------------------------------------
(* Claims about several charts on one page (SpecPeers) *)

\* the postMessage calls that the last window event caused in this chart
OwnPosted ==
  IF ThroughGate /\ lastSend[1].send /\ lastSend[1].target = "postMessage" THEN 1 ELSE 0

\* C29: with two table charts mounted in one embedded page, one publish-event on
\* the window results in at most one postMessage to the parent frame
C29_OnePostPerEvent ==
  phase = "mounted" /\ peer.mounted /\ ~isTopWindow /\ Forwarded
    => OwnPosted + peer.posted <= 1

----------------------------------------------------------------------------
(* Claims about the visibility condition (SpecVisibility) *)

Evaluated == visibility # <<>>
Cond == visibility[1].condition[1]

\* the same condition with another operator, evaluated on the same row
WithOperator(op) ==
  evaluateVisibilityCondition(<< [Cond EXCEPT !.operator = <<op>>] >>, visibility[1].row)

\* the condition lacks nothing: it has a column and an operator
Complete ==
  /\ visibility[1].condition # <<>>
  /\ Cond.column # <<>> /\ Cond.column[1] # [array |-> FALSE, names |-> <<"">>]
  /\ Cond.operator \notin {<<>>, <<"">>}

\* C21: evaluateVisibilityCondition returns true when the condition, its column or
\* its operator is missing and for every operator outside the known set; '!=' is
\* the negation of '==', 'IS NOT NULL' of 'IS NULL' and 'NOT IN' of 'IN' on every
\* row and value, and IN tests whether String(rowValue) is one of the trimmed
\* comma-separated items of String(condValue)
C21_FailOpenAndNegations ==
  Evaluated =>
    /\ (~Complete => visibility[1].visible)
    /\ (Complete /\ Cond.operator[1] \notin KnownOperators => visibility[1].visible)
    /\ (Complete /\ Cond.operator[1] = "!=" => visibility[1].visible = ~WithOperator("=="))
    /\ (Complete /\ Cond.operator[1] = "==" => visibility[1].visible = ~WithOperator("!="))
    /\ (Complete /\ Cond.operator[1] = "IS NOT NULL"
          => visibility[1].visible = ~WithOperator("IS NULL"))
    /\ (Complete /\ Cond.operator[1] = "IS NULL"
          => visibility[1].visible
               = Nullish(RowValue(visibility[1].row, ColKey(Cond.column))))
    /\ (Complete /\ Cond.operator[1] = "NOT IN" => visibility[1].visible = ~WithOperator("IN"))
    /\ (Complete /\ Cond.operator[1] = "IN"
          => visibility[1].visible
               = (\E item \in ListItems(Cond.value) :
                    item = JsString(RowValue(visibility[1].row, ColKey(Cond.column)))))

\* an operator outside the known set was evaluated on a row that has the column
C21_Witness ==
  /\ Evaluated /\ Complete
  /\ Cond.operator[1] = "LIKE"
  /\ visibility[1].row # <<>> /\ ColKey(Cond.column) = <<"s">>
  /\ visibility[1].visible

\* IN found the string form of a number among the trimmed items of the list
C21_WitnessIn ==
  /\ Evaluated /\ Complete
  /\ Cond.operator[1] = "IN"
  /\ Cond.value = VStr(<<" ", "1", ",", "n", "u", "l", "l">>)
  /\ RowValue(visibility[1].row, ColKey(Cond.column)) = VNum(1)
  /\ visibility[1].visible

\* '!=' hid an action that '==' shows: a number and a string that are loosely equal
C21_WitnessNegation ==
  /\ Evaluated /\ Complete
  /\ Cond.operator[1] = "!="
  /\ Cond.value = VStr(<<"1">>)
  /\ RowValue(visibility[1].row, ColKey(Cond.column)) = VNum(1)
  /\ ~visibility[1].visible

----------------------------------------------------------------------------
(* Claims about the progress indicator of the filter bar (SpecBarLive) *)

\* the indicator was hidden after its last show and showProgress has been false since
HiddenSince == ~progressVisible /\ barLog.hiddenAt # NoTime

\* what holds of the indicator in every state
BarSafety ==
  /\ (showProgressRaw(progressEnabled, showProgress) => progressVisible /\ Rendered)
  /\ (Rendered => barLog.shown)
  /\ (progressVisible /\ ~showProgressRaw(progressEnabled, showProgress)
        => hideRef # <<>> /\ hideRef[1] >= barLog.visibleAt + MIN_VISIBLE_MS
                          /\ now <= hideRef[1])
  /\ (HiddenSince => barLog.hiddenAt >= barLog.visibleAt + MIN_VISIBLE_MS)
  /\ (HiddenSince /\ now < barLog.hiddenAt + FadeHoldMs => Rendered)
  /\ (HiddenSince /\ barLog.removedAt # NoTime
        => barLog.removedAt = barLog.hiddenAt + FadeHoldMs /\ ~Rendered)
  /\ (HiddenSince /\ now > barLog.hiddenAt + FadeHoldMs => ~Rendered)

\* C22: with the feature flag enabled, the indicator is rendered once showProgress
\* is true and never before showProgress has been true; after showProgress turns
\* false it stays visible until at least 400 ms have passed since it became
\* visible, is then hidden and stays rendered for a further 220 ms, and is then
\* removed; while showProgress stays false the indicator is eventually not rendered
C22_ProgressIndicator ==
  /\ []BarSafety
  /\ (~showProgress ~> (showProgress \/ ~Rendered))

\* the indicator was shown, hidden 400 ms later at the earliest and removed 220 ms
\* after that
C22_Witness ==
  /\ progressEnabled /\ barLog.shown /\ ~showProgress
  /\ HiddenSince /\ barLog.removedAt # NoTime
  /\ ~Rendered

\* showProgress turned false less than 400 ms after the indicator became visible,
\* and the indicator is still visible
C22_WitnessMinimum ==
  /\ progressEnabled /\ ~showProgress /\ progressVisible
  /\ hideRef # <<>> /\ hideRef[1] > now
  /\ now < barLog.visibleAt + MIN_VISIBLE_MS

\* the indicator is hidden and still rendered during the fade-out hold
C22_WitnessHold ==
  /\ HiddenSince /\ holdRender /\ now > barLog.hiddenAt

====
